---- MODULE Spec2Model ----
(***************************************************************************)
(* A model of the core of the pdf crate: the File facade (object cache,    *)
(* page-tree walks, attribute inheritance), the cross-reference loader and *)
(* the classic/stream xref section parsers.                                *)
(***************************************************************************)
EXTENDS Integers, Sequences, FiniteSets, TLC

VARIABLES
    doc,            \* the opened document: its page tree objects
    cache,          \* File.cache: PlainRef -> the typed object stored for it
    rcs,            \* the number of Rc allocations made for each PlainRef
    ret,            \* the last facade call, its arguments and its result
    backend,        \* the xref section groups of a file, by byte offset
    refs,           \* the XRefTable read_xref_table_and_trailer builds
    trailer,        \* the trailer it will return
    prev_trailer,   \* the offset the loop loads next
    xret,           \* where the loader is: "start", "loop", "Ok" or "Err"
    input,          \* what an xref section parser is given to read
    output          \* what the xref section parser returned for it

fileVars == <<doc, cache, rcs, ret>>
loadVars == <<backend, refs, trailer, prev_trailer, xret>>
parseVars == <<input, output>>
vars == <<fileVars, loadVars, parseVars>>

(***************************************************************************)
(* Bounds                                                                  *)
(***************************************************************************)
\* largest number of page-tree nodes (Pages and Page objects) in a document
MaxNodes == 4
\* longest chain of Pages ancestors above a page in the attribute documents
MaxDepth == 2
\* number of xref section groups (byte offsets holding one) in a file
MaxSections == 3
\* largest object id an xref section names
MaxObjId == 1

(***************************************************************************)
(* Documents.  Object ids 1..n are page-tree nodes, object 1 being the     *)
(* root Pages object of the catalog.  ResBase+i is the Resources object    *)
(* referenced by node i, FreeId is an id whose xref entry is Free.         *)
(***************************************************************************)
\* Option<T>: None, or Some(x)
None == <<>>
Some(x) == <<x>>
IsSome(o) == o # None
Unwrap(o) == o[1]

MaxNodeId == IF MaxNodes > MaxDepth + 1 THEN MaxNodes ELSE MaxDepth + 1
NodeIds == 1..MaxNodeId
ResBase == MaxNodeId
FreeId == 2 * MaxNodeId + 1
Ids == NodeIds \cup {ResBase + i : i \in NodeIds} \cup {FreeId}
Gens == {0, 1}
PlainRef == [id : Ids, gen : Gens]
Ref(i) == [id |-> i, gen |-> 0]

RECURSIVE SetToSeq(_)
SetToSeq(S) ==
    IF S = {} THEN <<>>
    ELSE LET m == CHOOSE x \in S : \A y \in S : x <= y
         IN  <<m>> \o SetToSeq(S \ {m})

\* the leaves below node i of the tree given by kind/kids, depth first in kids order
RECURSIVE LeavesOf(_, _, _)
RECURSIVE LeavesOfKids(_, _, _, _)
LeavesOf(kind, kids, i) ==
    IF kind[i] = "Page" THEN <<i>> ELSE LeavesOfKids(kind, kids, kids[i], 1)
LeavesOfKids(kind, kids, ks, k) ==
    IF k > Len(ks) THEN <<>>
    ELSE LeavesOf(kind, kids, ks[k]) \o LeavesOfKids(kind, kids, ks, k + 1)

\* a document from its node kinds, the node above each node (the root has
\* none), the nodes carrying a MediaBox and the nodes carrying Resources
MkDoc(n, kind, above, M, R) ==
    LET kids == [i \in 1..n |-> IF kind[i] = "Pages"
                                THEN SetToSeq({j \in 2..n : above[j] = i})
                                ELSE <<>>]
    IN  [n      |-> n,
         kind   |-> kind,
         parent |-> [i \in 1..n |-> IF i = 1 THEN None ELSE Some(Ref(above[i]))],
         kids   |-> [i \in 1..n |-> [k \in 1..Len(kids[i]) |-> Ref(kids[i][k])]],
         count  |-> [i \in 1..n |-> IF kind[i] = "Pages"
                                    THEN Len(LeavesOf(kind, kids, i)) ELSE 0],
         media_box |-> [i \in 1..n |-> IF i \in M THEN Some(i) ELSE None],
         resources |-> [i \in 1..n |-> IF i \in R THEN Some(Ref(ResBase + i)) ELSE None]]

\* every ordered page tree with n nodes in which each Pages node has a kid,
\* no inheritable attribute set
ShapeDocs(n) ==
    { MkDoc(n, kp[1], kp[2], {}, {}) :
        kp \in { x \in [1..n -> {"Pages", "Page"}] \X [1..n -> 0..(n - 1)] :
                   /\ x[1][1] = "Pages"
                   /\ x[2][1] = 0
                   /\ \A j \in 2..n : /\ x[2][j] >= 1
                                      /\ x[2][j] < j
                                      /\ x[1][x[2][j]] = "Pages"
                   /\ \A i \in 1..n : x[1][i] = "Pages" => \E j \in 2..n : x[2][j] = i } }

\* a chain of d Pages objects above one page (object d+1), with MediaBox on
\* the nodes of M and a Resources reference on the nodes of R
ChainDoc(d, M, R) ==
    MkDoc(d + 1,
          [i \in 1..(d + 1) |-> IF i = d + 1 THEN "Page" ELSE "Pages"],
          [i \in 1..(d + 1) |-> i - 1],
          M, R)

AttrDocs ==
    UNION { { ChainDoc(d, M, {}) : M \in SUBSET (1..(d + 1)) }
            \cup { ChainDoc(d, {}, R) : R \in (SUBSET (1..(d + 1))) \ {{}} }
          : d \in 1..MaxDepth }

TreeDocs == UNION { ShapeDocs(n) : n \in 2..MaxNodes }

Docs == TreeDocs \cup AttrDocs

\* the kind of dictionary stored as object i of the document
KindOf(i) ==
    IF i \in 1..doc.n THEN doc.kind[i]
    ELSE IF i > ResBase /\ i - ResBase \in 1..doc.n
                        /\ doc.resources[i - ResBase] = Some(Ref(i))
         THEN "Resources"
    ELSE "Free"


(***************************************************************************)
(* File facade: the object cache and deref                                 *)
(***************************************************************************)
\* results of an operation: Ok(val), Err(err) or a panic
NoVal == [rc |-> <<>>, id |-> 0, typ |-> ""]
NoErr == <<>>
Ok(v, fs) == [st |-> "Ok", err |-> NoErr, val |-> v, fs |-> fs]
Err(e, fs) == [st |-> "Err", err |-> e, val |-> NoVal, fs |-> fs]
Panic(m, fs) == [st |-> "Panic", err |-> <<m>>, val |-> NoVal, fs |-> fs]

\* the cache and the Rc allocations made for each key as an operation starts,
\* with the operation's own counts of deref, resolve and from_primitive calls
Fs0 == [cache |-> cache, rcs |-> rcs, derefs |-> 0, resolves |-> 0, decodes |-> 0]

\* Backend::resolve: the primitive stored as object (id, gen)
backend_resolve(r) ==
    IF KindOf(r.id) = "Free" THEN [st |-> "Err", err |-> <<"FreeObject", r.id>>]
    ELSE IF r.gen # 0 THEN [st |-> "Err", err |-> <<"UnexpectedLexeme">>]
    ELSE [st |-> "Ok", val |-> KindOf(r.id)]

\* File::resolve: no change is ever recorded, so the backend answers
resolve(r) == backend_resolve(r)

\* T::from_primitive on a dictionary of the given kind
from_primitive(T, kind) ==
    CASE T = "PagesNode" ->
            IF kind \in {"Page", "Pages"} THEN "Ok" ELSE "WrongDictionaryType"
      [] T = "PageTree" ->
            IF kind = "Pages" THEN "Ok"
            ELSE IF kind = "Page" THEN "KeyValueMismatch" ELSE "MissingEntry"
      [] T = "Resources" -> "Ok"

\* Any::downcast: the cached slot carries the type it was stored with
downcast(e, T) == e.typ = T

\* a mutant: a hit decodes the object again and hands out the new copy
deref_redecode(fs, r, T) ==
    LET f1 == [fs EXCEPT !.derefs = @ + 1]
        p  == resolve(r)
    IN  IF p.st # "Ok" THEN Err(p.err, [f1 EXCEPT !.resolves = @ + 1])
        ELSE LET d  == from_primitive(T, p.val)
                 f3 == [f1 EXCEPT !.resolves = @ + 1, !.decodes = @ + 1]
                 rc == <<r, f3.rcs[r] + 1>>
             IN  IF IsSome(fs.cache[r]) /\ ~downcast(Unwrap(fs.cache[r]), T)
                 THEN Panic("wrong type", f1)
                 ELSE IF d # "Ok" THEN Err(<<d>>, f3)
                 ELSE Ok([rc |-> rc, id |-> r.id, typ |-> T],
                         [f3 EXCEPT !.rcs[r] = IF @ < 2 THEN @ + 1 ELSE @,
                                    !.cache[r] = IF IsSome(@) THEN @
                                                 ELSE Some([typ |-> T, rc |-> rc])])

\* a mutant: an entry of another type is decoded again and replaced
deref_replace(fs, r, T) ==
    LET f1 == [fs EXCEPT !.derefs = @ + 1]
    IN  IF IsSome(fs.cache[r]) /\ downcast(Unwrap(fs.cache[r]), T)
        THEN Ok([rc |-> Unwrap(fs.cache[r]).rc, id |-> r.id, typ |-> T], f1)
        ELSE LET p  == resolve(r)
                 f2 == [f1 EXCEPT !.resolves = @ + 1]
             IN  IF p.st # "Ok" THEN Err(p.err, f2)
                 ELSE LET f3 == [f2 EXCEPT !.decodes = @ + 1]
                          d  == from_primitive(T, p.val)
                          rc == <<r, f3.rcs[r] + 1>>
                      IN  IF d # "Ok" THEN Err(<<d>>, f3)
                          ELSE Ok([rc |-> rc, id |-> r.id, typ |-> T],
                                  [f3 EXCEPT !.rcs[r] = IF @ < 2 THEN @ + 1 ELSE @,
                                             !.cache[r] = Some([typ |-> T, rc |-> rc])])

deref(fs, r, T) ==
    LET f1 == [fs EXCEPT !.derefs = @ + 1]
    IN  IF IsSome(fs.cache[r])
        THEN LET e == Unwrap(fs.cache[r])
             IN  IF downcast(e, T)
                 THEN Ok([rc |-> e.rc, id |-> r.id, typ |-> T], f1)
                 ELSE Panic("wrong type", f1)
        ELSE LET p  == resolve(r)
                 f2 == [f1 EXCEPT !.resolves = @ + 1]
             IN  IF p.st # "Ok" THEN Err(p.err, f2)
                 ELSE LET f3 == [f2 EXCEPT !.decodes = @ + 1]
                          d  == from_primitive(T, p.val)
                          rc == <<r, f3.rcs[r] + 1>>
                      IN  IF d # "Ok" THEN Err(<<d>>, f3)
                          ELSE Ok([rc |-> rc, id |-> r.id, typ |-> T],
                                  [f3 EXCEPT !.rcs[r] = @ + 1,
                                             !.cache[r] = Some([typ |-> T, rc |-> rc])])

(***************************************************************************)
(* File facade: get_page                                                   *)
(***************************************************************************)
\* the loop of find_page over pages.kids from its k-th kid on
RECURSIVE find_page(_, _, _, _, _)
find_page(fs, pages, k, offset, page_nr) ==
    IF k > Len(doc.kids[pages]) THEN Err(<<"PageNotFound", page_nr>>, fs)
    ELSE LET kid == doc.kids[pages][k]
             rc  == deref(fs, kid, "PagesNode")
         IN  IF rc.st # "Ok" THEN rc
             ELSE IF doc.kind[kid.id] = "Pages"
             THEN IF offset + doc.count[kid.id] < page_nr
                  THEN find_page(rc.fs, pages, k + 1, offset + doc.count[kid.id], page_nr)
                  ELSE find_page(rc.fs, kid.id, 1, offset, page_nr)
             ELSE IF offset < page_nr
                  THEN find_page(rc.fs, pages, k + 1, offset + 1, page_nr)
                  ELSE IF offset = page_nr THEN Ok(rc.val, rc.fs)
                       ELSE Panic("assertion failed", rc.fs)

get_num_pages == doc.count[1]

\* a mutant: the bound test lets n = Count through
get_page_off_by_one(fs, n) ==
    IF n > get_num_pages
    THEN Err(<<"PageOutOfBounds", n, get_num_pages>>, fs)
    ELSE find_page(fs, 1, 1, 0, n)

get_page(fs, n) ==
    IF n >= get_num_pages
    THEN Err(<<"PageOutOfBounds", n, get_num_pages>>, fs)
    ELSE find_page(fs, 1, 1, 0, n)

(***************************************************************************)
(* File facade: pages                                                      *)
(***************************************************************************)
\* w holds the file state, the position *pos and the calls func has received
RECURSIVE walk_pagetree(_, _, _)
RECURSIVE walk_kids(_, _, _, _)
walk_pagetree(w, tree, range) ==
    LET node == deref(w.fs, tree, "PagesNode")
        w1   == [w EXCEPT !.fs = node.fs]
    IN  IF node.st # "Ok" THEN [st |-> node.st, err |-> node.err, w |-> w1]
        ELSE IF doc.kind[tree.id] = "Pages"
        THEN LET end == w.pos + doc.count[tree.id]
             IN  IF range.start < end /\ w.pos < range.end
                 THEN LET r == walk_kids(w1, tree.id, 1, range)
                      IN  IF r.st # "Ok" THEN r ELSE [r EXCEPT !.w.pos = end]
                 ELSE [st |-> "Ok", err |-> NoErr, w |-> [w1 EXCEPT !.pos = end]]
        ELSE [st |-> "Ok", err |-> NoErr,
              w |-> [w1 EXCEPT !.pos = @ + 1,
                               !.calls = IF range.start <= w.pos /\ w.pos < range.end
                                         THEN Append(@, <<w.pos, tree.id>>) ELSE @]]

\* the loop of walk_pagetree over tree.kids from its k-th kid on
walk_kids(w, t, k, range) ==
    IF k > Len(doc.kids[t]) THEN [st |-> "Ok", err |-> NoErr, w |-> w]
    ELSE LET r == walk_pagetree(w, doc.kids[t][k], range)
         IN  IF r.st # "Ok" THEN r
             ELSE IF r.w.pos >= range.end THEN r
             ELSE walk_kids(r.w, t, k + 1, range)

\* the loop of pages over the root's kids from its k-th kid on
RECURSIVE pages_loop(_, _, _)
pages_loop(w, k, range) ==
    IF k > Len(doc.kids[1]) THEN [st |-> "Ok", err |-> NoErr, w |-> w]
    ELSE LET r == walk_pagetree(w, doc.kids[1][k], range)
         IN  IF r.st # "Ok" THEN r ELSE pages_loop(r.w, k + 1, range)

pages(fs, range) == pages_loop([fs |-> fs, pos |-> 0, calls |-> <<>>], 1, range)

(***************************************************************************)
(* Page attributes inherited from the Parent chain                         *)
(***************************************************************************)
\* the closure f of media_box / crop_box / resources applied to the PageTree t
inherit_f(fs, field, t) ==
    IF field = "MediaBox"
    THEN IF IsSome(doc.media_box[t]) THEN Some(Ok(Unwrap(doc.media_box[t]), fs)) ELSE None
    ELSE IF field = "CropBox"
    THEN IF IsSome(doc.crop_box[t]) THEN Some(Ok(Unwrap(doc.crop_box[t]), fs)) ELSE None
    ELSE IF IsSome(doc.resources[t])
         THEN Some(deref(fs, Unwrap(doc.resources[t]), "Resources")) ELSE None

RECURSIVE inherit(_, _, _)
inherit(fs, parent, field) ==
    LET page_tree == deref(fs, parent, "PageTree")
    IN  IF page_tree.st # "Ok" THEN page_tree
        ELSE LET t == parent.id
                 v == inherit_f(page_tree.fs, field, t)
             IN  IF IsSome(v)
                 THEN IF Unwrap(v).st = "Ok"
                      THEN Ok(Some(Unwrap(v).val), Unwrap(v).fs)
                      ELSE Unwrap(v)
                 ELSE IF IsSome(doc.parent[t])
                      THEN inherit(page_tree.fs, Unwrap(doc.parent[t]), field)
                      ELSE Ok(None, page_tree.fs)

\* Page::media_box of the page stored as object p
media_box(fs, p) ==
    IF IsSome(doc.media_box[p]) THEN Ok(Unwrap(doc.media_box[p]), fs)
    ELSE LET i == inherit(fs, Unwrap(doc.parent[p]), "MediaBox")
         IN  IF i.st # "Ok" THEN i
             ELSE IF IsSome(i.val) THEN Ok(Unwrap(i.val), i.fs)
             ELSE Err(<<"MissingEntry", "Page", "MediaBox">>, i.fs)

\* Page::resources of the page stored as object p
resources(fs, p) ==
    IF IsSome(doc.resources[p]) THEN deref(fs, Unwrap(doc.resources[p]), "Resources")
    ELSE LET i == inherit(fs, Unwrap(doc.parent[p]), "Resources")
         IN  IF i.st # "Ok" THEN i
             ELSE IF IsSome(i.val) THEN Ok(Unwrap(i.val), i.fs)
             ELSE Err(<<"MissingEntry", "Page", "Resources">>, i.fs)

(***************************************************************************)
(* The program: a file is opened, then the caller uses the facade          *)
(***************************************************************************)
NoArgs == [r |-> Ref(1), typ |-> "", n |-> 0, range |-> [start |-> 0, end |-> 0], page |-> 0]

Returned(op, args, res, calls) ==
    [op |-> op, args |-> args, st |-> res.st, err |-> res.err,
     val |-> IF res.st = "Ok" THEN res.val ELSE NoVal, calls |-> calls,
     derefs |-> res.fs.derefs, resolves |-> res.fs.resolves, decodes |-> res.fs.decodes]

\* the references and types a caller passes to File::deref
DerefInputs ==
    { x \in PlainRef \X {"PagesNode", "PageTree", "Resources"} :
        \/ x[1].id \in 1..doc.n /\ x[2] \in {"PagesNode", "PageTree"}
        \/ KindOf(x[1].id) = "Resources" /\ x[2] = "Resources"
        \/ x[1].id = FreeId /\ x[2] = "PagesNode" }

\* the pages a caller holds a handle of
HeldPages ==
    { p \in 1..doc.n : /\ doc.kind[p] = "Page"
                       /\ IsSome(cache[Ref(p)])
                       /\ Unwrap(cache[Ref(p)]).typ = "PagesNode" }

Running == ret.st # "Panic"

FileInit(docs) ==
    /\ doc \in docs
    /\ cache = [r \in PlainRef |-> None]
    /\ rcs = [r \in PlainRef |-> 0]
    /\ ret = [op |-> "open", args |-> NoArgs, st |-> "Ok", err |-> NoErr, val |-> NoVal,
              calls |-> <<>>, derefs |-> 0, resolves |-> 0, decodes |-> 0]

\* no xref section parser is at work
ParseIdle ==
    /\ input = None
    /\ output = None

\* the loader is not running
LoadIdle ==
    /\ backend = <<>>
    /\ refs = <<>>
    /\ trailer = None
    /\ prev_trailer = None
    /\ xret = "idle"

\* a file whose page tree is one of TreeDocs has been opened
Init == FileInit(TreeDocs) /\ LoadIdle /\ ParseIdle

\* a file whose page tree is one of AttrDocs has been opened
InitInherit == FileInit(AttrDocs) /\ LoadIdle /\ ParseIdle

Finish(op, args, res, calls) ==
    /\ cache' = res.fs.cache
    /\ rcs' = res.fs.rcs
    /\ ret' = Returned(op, args, res, calls)
    /\ UNCHANGED <<doc, loadVars, parseVars>>

Deref ==
    /\ Running
    /\ \E x \in DerefInputs :
         Finish("deref", [NoArgs EXCEPT !.r = x[1], !.typ = x[2]], deref(Fs0, x[1], x[2]), <<>>)

GetPage ==
    /\ Running
    /\ \E n \in (-1)..(get_num_pages + 1) :
         Finish("get_page", [NoArgs EXCEPT !.n = n], get_page(Fs0, n), <<>>)

Pages ==
    /\ Running
    /\ \E a \in 0..(get_num_pages + 1), b \in 0..(get_num_pages + 1) :
         LET range == [start |-> a, end |-> b]
             r     == pages(Fs0, range)
         IN  Finish("pages", [NoArgs EXCEPT !.range = range],
                    [st |-> r.st, err |-> r.err, val |-> NoVal, fs |-> r.w.fs], r.w.calls)

MediaBox ==
    /\ Running
    /\ \E p \in HeldPages :
         Finish("media_box", [NoArgs EXCEPT !.page = p], media_box(Fs0, p), <<>>)

Resources ==
    /\ Running
    /\ \E p \in HeldPages :
         Finish("resources", [NoArgs EXCEPT !.page = p], resources(Fs0, p), <<>>)

Next == Deref \/ GetPage \/ Pages

Spec == Init /\ [][Next]_vars

NextInherit == Deref \/ GetPage \/ MediaBox \/ Resources

SpecInherit == InitInherit /\ [][NextInherit]_vars

TypeOK ==
    /\ doc \in Docs
    /\ \A r \in PlainRef : rcs[r] = IF IsSome(cache[r]) THEN 1 ELSE 0
    /\ ret.st \in {"Ok", "Err", "Panic"}

(***************************************************************************)
(* Reference definitions the properties are stated with                    *)
(***************************************************************************)
\* the leaves of the document, depth first in kids order
Leaves == LeavesOf(doc.kind, [i \in 1..doc.n |-> [k \in 1..Len(doc.kids[i]) |-> doc.kids[i][k].id]], 1)

\* each Pages node's Count is the number of leaves beneath it
ConsistentCounts ==
    \A i \in 1..doc.n :
        doc.kind[i] = "Pages" =>
            doc.count[i] = Len(LeavesOf(doc.kind,
                [j \in 1..doc.n |-> [k \in 1..Len(doc.kids[j]) |-> doc.kids[j][k].id]], i))

\* the nearest of node i and its ancestors that carries the field
RECURSIVE NearestCarrier(_, _)
NearestCarrier(i, field) ==
    IF IsSome(IF field = "MediaBox" THEN doc.media_box[i] ELSE doc.resources[i]) THEN Some(i)
    ELSE IF IsSome(doc.parent[i]) THEN NearestCarrier(Unwrap(doc.parent[i]).id, field)
    ELSE None

CachedKeys == { r \in PlainRef : IsSome(cache[r]) }

(***************************************************************************)
(* Properties of the File facade                                           *)
(***************************************************************************)
\* C1: with consistent Counts, get_page(i) for 0 <= i < root Count returns Ok
\* with the i-th leaf of the depth-first, kids-order traversal.
C1_GetPageReturnsIthLeaf ==
    (ret.op = "get_page" /\ ConsistentCounts /\ 0 <= ret.args.n /\ ret.args.n < get_num_pages)
        => (ret.st = "Ok" /\ ret.val.id = Leaves[ret.args.n + 1])

\* C2: once (id, gen) is cached at type T, a deref of it at type T returns the
\* stored instance and calls neither resolve nor from_primitive.
C2_DerefReturnsStoredInstance ==
    [][ (/\ ret'.op = "deref"
         /\ IsSome(cache[ret'.args.r])
         /\ Unwrap(cache[ret'.args.r]).typ = ret'.args.typ)
        => (/\ ret'.st = "Ok"
            /\ ret'.val.rc = Unwrap(cache[ret'.args.r]).rc
            /\ ret'.val.id = ret'.args.r.id
            /\ ret'.resolves = 0
            /\ ret'.decodes = 0
            /\ rcs' = rcs) ]_vars

C2_Witness ==
    /\ ret.op = "deref"
    /\ ret.st = "Ok"
    /\ ret.derefs = 1
    /\ ret.resolves = 0
    /\ ret.decodes = 0

\* C3: media_box and resources return the page's own value if present,
\* otherwise that of the nearest ancestor that has one, and MissingEntry
\* exactly when no node of the Parent chain has the entry.
C3_InheritsNearestValue ==
    (ret.op \in {"media_box", "resources"}) =>
        LET field == IF ret.op = "media_box" THEN "MediaBox" ELSE "Resources"
            c     == NearestCarrier(ret.args.page, field)
        IN  IF IsSome(c)
            THEN /\ ret.st = "Ok"
                 /\ IF ret.op = "media_box"
                    THEN ret.val = Unwrap(doc.media_box[Unwrap(c)])
                    ELSE ret.val.id = Unwrap(doc.resources[Unwrap(c)]).id
            ELSE /\ ret.st = "Err"
                 /\ ret.err = <<"MissingEntry", "Page", field>>

\* the calls pages(func, a..b) owes to func
ExpectedCalls(a, b) ==
    LET hi == IF b < Len(Leaves) THEN b ELSE Len(Leaves)
    IN  [k \in 1..(IF hi > a THEN hi - a ELSE 0) |-> <<a + k - 1, Leaves[a + k]>>]

\* C5: with consistent Counts, pages(func, a..b) calls func exactly once for
\* each leaf of index i in a..b, in increasing order of i, with (i, leaf),
\* and for no other leaf.
C5_PagesCallsFuncInRange ==
    (ret.op = "pages" /\ ConsistentCounts)
        => ret.calls = ExpectedCalls(ret.args.range.start, ret.args.range.end)

\* C6: get_page(n) with n >= root Count returns PageOutOfBounds{n, Count}
\* without any deref, leaving the cache unchanged.
C6_OutOfBoundsBeforeDeref ==
    [][ (ret'.op = "get_page" /\ ret'.args.n >= get_num_pages)
        => (/\ ret'.st = "Err"
            /\ ret'.err = <<"PageOutOfBounds", ret'.args.n, get_num_pages>>
            /\ ret'.derefs = 0
            /\ cache' = cache) ]_vars

C6_Witness ==
    /\ ret.op = "get_page"
    /\ ret.args.n >= get_num_pages
    /\ ret.st = "Err"
    /\ CachedKeys # {}

\* C26: the assertion offset == page_nr in find_page holds whenever it is
\* reached, for every n (negative ones too) and every page tree (also
\* with inconsistent Counts): get_page returns Ok, PageOutOfBounds or
\* PageNotFound and never aborts on the assertion
C26_FindPageAssertionHolds ==
    (ret.op = "get_page") =>
        ~(ret.st = "Panic" /\ ret.err = <<"assertion failed">>)

\* a file whose page tree is one of TreeDocs with any Counts in -1..MaxNodes
\* written on its Pages nodes has been opened
InitCounts ==
    /\ LoadIdle
    /\ ParseIdle
    /\ \E d \in TreeDocs : \E c \in [1..d.n -> (-1)..MaxNodes] :
         /\ \A i \in 1..d.n : d.kind[i] = "Page" => c[i] = 0
         /\ FileInit({[d EXCEPT !.count = c]})

SpecCounts == InitCounts /\ [][GetPage]_vars

\* the assertion holds for every n >= 0, whatever the Counts are
FindPageAssertionHoldsFromZero ==
    (ret.op = "get_page" /\ ret.args.n >= 0) =>
        ~(ret.st = "Panic" /\ ret.err = <<"assertion failed">>)

\* C7: the cache only grows: no entry is removed or replaced, a deref that
\* misses and decodes adds exactly its own key, a hit or a failing deref adds
\* nothing.
C7_CacheOnlyGrows ==
    [][ /\ \A r \in PlainRef : IsSome(cache[r]) => cache'[r] = cache[r]
        /\ ret'.op = "deref" =>
             IF IsSome(cache[ret'.args.r]) \/ ret'.st # "Ok"
             THEN cache' = cache
             ELSE /\ IsSome(cache'[ret'.args.r])
                  /\ \A r \in PlainRef \ {ret'.args.r} : cache'[r] = cache[r] ]_vars

C7_Witness ==
    /\ ret.op = "deref"
    /\ ret.st = "Ok"
    /\ ret.decodes = 1
    /\ Cardinality(CachedKeys) >= 2

\* C8: a deref at type T2 of a key cached at another type T1 does not hand
\* the T1 object out, keeps the entry, and returns a failure to the caller.
C8_TypeMismatchIsReturnedError ==
    (/\ ret.op = "deref"
     /\ IsSome(cache[ret.args.r])
     /\ Unwrap(cache[ret.args.r]).typ # ret.args.typ)
        => ret.st = "Err"

(***************************************************************************)
(* Backend::read_xref_table_and_trailer: the chain of xref section groups  *)
(***************************************************************************)
\* the file handle is not in use
FileIdle ==
    /\ doc = None
    /\ cache = <<>>
    /\ rcs = <<>>
    /\ ret = None

\* the offset the file's startxref names
locate_xref_offset == CHOOSE off \in DOMAIN backend : \A o \in DOMAIN backend : off <= o

\* the entry the group at offset off holds for object id
EntryAt(off, id) == [kind |-> "Raw", pos |-> 100 * off + id, gen_nr |-> 0]

\* the sections of the group at off naming the ids of S: one per run of ids
RECURSIVE SectionsOf(_, _, _)
SectionsOf(off, S, from) ==
    IF \A i \in S : i < from THEN <<>>
    ELSE LET first == CHOOSE i \in S : i >= from /\ \A j \in S : j >= from => i <= j
             last  == CHOOSE i \in S : /\ i >= first
                                       /\ \A j \in first..i : j \in S
                                       /\ (i + 1) \notin S
         IN  <<[first_id |-> first,
                entries  |-> [k \in 1..(last - first + 1) |-> EntryAt(off, first + k - 1)]]>>
             \o SectionsOf(off, S, last + 1)

\* a file whose /Prev chain has the groups naming the ids S[1], S[2], ...,
\* the first trailer having /Size sz and the last one /Prev last
Backend(S, sz, last) ==
    [off \in 1..Len(S) |->
        [sections |-> SectionsOf(off, S[off], 0),
         trailer  |-> [Size |-> IF off = 1 THEN sz ELSE Some(MaxObjId + 1),
                       Prev |-> IF off < Len(S) THEN Some(off + 1) ELSE last]]]

\* XRefTable::new: a table of n unspecified entries, for the ids 0..n-1
XRefTable_new(n) == [i \in 0..(n - 1) |-> None]

\* XRefTable::add_entries_from: the first entry written for an id stays
RECURSIVE add_entries_from(_, _, _)
add_entries_from(t, section, k) ==
    IF k > Len(section.entries) THEN t
    ELSE LET id == section.first_id + k - 1
         IN  add_entries_from(IF t[id] = None
                              THEN [t EXCEPT ![id] = Some(section.entries[k])]
                              ELSE t,
                              section, k + 1)

\* a mutant: the table is created anew for each group of sections
RECURSIVE add_sections_fresh(_, _)
add_sections_fresh(t, xref_sections) ==
    IF xref_sections = <<>> THEN [i \in DOMAIN t |-> None]
    ELSE add_entries_from(add_sections_fresh(t, SubSeq(xref_sections, 1, Len(xref_sections) - 1)),
                          xref_sections[Len(xref_sections)], 1)

\* for section in xref_sections { refs.add_entries_from(section) }
RECURSIVE add_sections(_, _)
add_sections(t, xref_sections) ==
    IF xref_sections = <<>> THEN t
    ELSE add_entries_from(add_sections(t, SubSeq(xref_sections, 1, Len(xref_sections) - 1)),
                          xref_sections[Len(xref_sections)], 1)

\* read_xref_and_trailer_at on self.read(off..): the group stored there
read_xref_and_trailer_at(off) ==
    IF off \in DOMAIN backend
    THEN [st |-> "Ok", sections |-> backend[off].sections, trailer |-> backend[off].trailer]
    ELSE [st |-> "Err", sections |-> <<>>, trailer |-> None]

InitLoad ==
    /\ FileIdle
    /\ ParseIdle
    /\ \E n \in 1..MaxSections : \E S \in [1..n -> SUBSET (0..MaxObjId)] :
         \E sz \in {None, Some(MaxObjId + 1)}, last \in {None, Some(n + 1)} :
              backend = Backend(S, sz, last)
    /\ refs = <<>>
    /\ trailer = None
    /\ prev_trailer = None
    /\ xret = "start"

\* lines 35-54: the group at startxref makes the table and the trailer
LoadFirst ==
    /\ xret = "start"
    /\ LET r == read_xref_and_trailer_at(locate_xref_offset)
       IN  IF r.st # "Ok" \/ r.trailer.Size = None
           THEN /\ xret' = "Err"
                /\ UNCHANGED <<refs, trailer, prev_trailer>>
           ELSE /\ refs' = add_sections(XRefTable_new(Unwrap(r.trailer.Size)), r.sections)
                /\ trailer' = Some(r.trailer)
                /\ prev_trailer' = r.trailer.Prev
                /\ xret' = "loop"
    /\ UNCHANGED <<backend, fileVars, parseVars>>

\* a mutant: the turn's trailer replaces the one to be returned and the
\* table is made anew with that trailer's /Size when it has one
LoadPrev_rebinding ==
    /\ xret = "loop"
    /\ IsSome(prev_trailer)
    /\ LET r == read_xref_and_trailer_at(Unwrap(prev_trailer))
       IN  IF r.st # "Ok"
           THEN /\ xret' = "Err"
                /\ UNCHANGED <<refs, trailer, prev_trailer>>
           ELSE /\ refs' = IF IsSome(r.trailer.Size)
                           THEN [i \in 0..(Unwrap(r.trailer.Size) - 1) |->
                                   IF i \in DOMAIN refs THEN refs[i] ELSE None]
                           ELSE refs
                /\ trailer' = Some(r.trailer)
                /\ prev_trailer' = r.trailer.Prev
                /\ xret' = "loop"
    /\ UNCHANGED <<backend, fileVars, parseVars>>

\* lines 56-70: one turn of the loop over /Prev
LoadPrev ==
    /\ xret = "loop"
    /\ IsSome(prev_trailer)
    /\ LET r == read_xref_and_trailer_at(Unwrap(prev_trailer))
       IN  IF r.st # "Ok"
           THEN /\ xret' = "Err"
                /\ UNCHANGED <<refs, prev_trailer>>
           ELSE /\ refs' = add_sections(refs, r.sections)
                /\ prev_trailer' = r.trailer.Prev
                /\ xret' = "loop"
    /\ UNCHANGED <<backend, trailer, fileVars, parseVars>>

\* line 71: Ok((refs, trailer))
LoadReturn ==
    /\ xret = "loop"
    /\ prev_trailer = None
    /\ xret' = "Ok"
    /\ UNCHANGED <<backend, refs, trailer, prev_trailer, fileVars, parseVars>>

NextLoad == LoadFirst \/ LoadPrev \/ LoadReturn

SpecLoad == InitLoad /\ [][NextLoad]_vars

\* the offsets the /Prev chain starting at off names, in loading order
RECURSIVE PrevChain(_)
PrevChain(off) ==
    IF off \notin DOMAIN backend THEN <<>>
    ELSE <<off>> \o (IF IsSome(backend[off].trailer.Prev)
                     THEN PrevChain(Unwrap(backend[off].trailer.Prev)) ELSE <<>>)

\* the ids the group at off has an entry for
IdsAt(off) ==
    UNION { { backend[off].sections[j].first_id + k - 1 :
                k \in 1..Len(backend[off].sections[j].entries) } :
            j \in 1..Len(backend[off].sections) }

\* the entry of the first group of the chain that names id
FirstLoaded(id) ==
    LET c    == PrevChain(locate_xref_offset)
        hits == { k \in 1..Len(c) : id \in IdsAt(c[k]) }
    IN  IF hits = {} THEN None
        ELSE Some(EntryAt(c[CHOOSE k \in hits : \A j \in hits : k <= j], id))

\* C4: the table returned holds, for each id, the entry of the group loaded
\* first among those naming the id, and no turn of the loop overwrites an
\* entry that is set.
C4_FirstLoadedSectionWins ==
    /\ [](xret = "Ok" => \A id \in DOMAIN refs : refs[id] = FirstLoaded(id))
    /\ [][ \A id \in DOMAIN refs : IsSome(refs[id]) => refs'[id] = refs[id] ]_vars

C4_Witness ==
    /\ xret = "Ok"
    /\ Len(PrevChain(locate_xref_offset)) >= 3
    /\ \E id \in DOMAIN refs :
         /\ id \in IdsAt(PrevChain(locate_xref_offset)[1])
         /\ id \in IdsAt(PrevChain(locate_xref_offset)[2])
    /\ \E id \in DOMAIN refs :
         /\ id \notin IdsAt(PrevChain(locate_xref_offset)[1])
         /\ id \in IdsAt(PrevChain(locate_xref_offset)[2])
         /\ id \in IdsAt(PrevChain(locate_xref_offset)[3])

\* the /Size entries written in the trailers after the first
LaterSizes == {None, Some(1), Some(MaxObjId + 1), Some(MaxObjId + 2)}

\* a file whose trailers after the first carry a /Size of their own
InitLoadSized ==
    /\ FileIdle
    /\ ParseIdle
    /\ \E n \in 1..MaxSections : \E S \in [1..n -> SUBSET (0..MaxObjId)] :
       \E later \in LaterSizes : \E last \in {None, Some(n + 1)} :
         backend = [off \in 1..n |->
                      IF off = 1 THEN Backend(S, Some(MaxObjId + 1), last)[off]
                      ELSE [Backend(S, Some(MaxObjId + 1), last)[off]
                              EXCEPT !.trailer.Size = later]]
    /\ refs = <<>>
    /\ trailer = None
    /\ prev_trailer = None
    /\ xret = "start"

SpecLoadSized == InitLoadSized /\ [][NextLoad]_vars

\* C28: the trailer returned is the trailer of the section at startxref
\* and the table has that trailer's /Size entries; no turn of the loop
\* over /Prev changes the trailer or the table's size
C28_FirstTrailerAndSizeKept ==
    /\ [](xret \in {"loop", "Ok"} =>
            /\ trailer = Some(backend[locate_xref_offset].trailer)
            /\ DOMAIN refs = 0..(Unwrap(backend[locate_xref_offset].trailer.Size) - 1))
    /\ [][ xret = "loop" => (trailer' = trailer /\ DOMAIN refs' = DOMAIN refs) ]_vars

\* a table returned after a section with another trailer was loaded
C28_Witness ==
    /\ xret = "Ok"
    /\ Len(PrevChain(locate_xref_offset)) >= 2
    /\ backend[PrevChain(locate_xref_offset)[2]].trailer.Size = Some(MaxObjId + 2)
    /\ IdsAt(PrevChain(locate_xref_offset)[2]) # {}

(***************************************************************************)
(* parse_xref_stream_and_trailer: the sections packed in an xref stream    *)
(***************************************************************************)
\* largest number of entries an xref stream or a classic table holds
MaxEntries == 2

\* the /W widths the xref streams are drawn with
Widths == {1, 2}

RECURSIVE pow(_, _)
pow(b, e) == IF e = 0 THEN 1 ELSE b * pow(b, e - 1)

\* what the writer of an xref stream puts in a field of width bytes: the low
\* width bytes of v, most significant first
be_bytes(v, width) == [i \in 1..width |-> (v \div pow(256, width - i)) % 256]

\* the entries an xref stream is drawn with: a type and two field values
StreamEntries == [type : 0..3, f : {<<16, 0>>, <<258, 513>>}]

RECURSIVE Payload(_, _, _)
Payload(w, es, k) ==
    IF k > Len(es) THEN <<>>
    ELSE be_bytes(es[k].type, w[1]) \o be_bytes(es[k].f[1], w[2])
            \o be_bytes(es[k].f[2], w[3]) \o Payload(w, es, k + 1)

\* the /Index array of a stream with one subsection per element of counts
RECURSIVE IndexOf(_, _, _)
IndexOf(first, counts, k) ==
    IF k > Len(counts) THEN <<>>
    ELSE <<first, counts[k]>> \o IndexOf(first + counts[k] + 1, counts, k + 1)

\* the ways of giving n entries to one subsection or to two
CountsOf(n) == {<<n>>} \cup { <<k, n - k>> : k \in 0..n }

\* the xref stream with widths w whose subsections, sized by counts, hold
\* the entries es: its payload is what the entries pack to, less the last
\* cut bytes
XRefStream(w, first, counts, es, cut) ==
    [w |-> w, index |-> IndexOf(first, counts, 1),
     data |-> SubSeq(Payload(w, es, 1), 1, Len(es) * (w[1] + w[2] + w[3]) - cut),
     first |-> first, counts |-> counts, entries |-> es, cut |-> cut]

\* read_u64_from_stream: width bytes off the front of data, the first the
\* most significant.  The fields the streams hold stay below 2^16, so the
\* u64 sum never wraps; data[0] on an empty slice is an index panic.
RECURSIVE read_u64_loop(_, _, _, _)
read_u64_loop(i, width, data, result) ==
    IF i >= width THEN [st |-> "Ok", val |-> result, data |-> data]
    ELSE IF Len(data) = 0 THEN [st |-> "Panic", val |-> result, data |-> data]
    ELSE read_u64_loop(i + 1, width, Tail(data),
                       result + Head(data) * pow(256, width - 1 - i))

read_u64_from_stream(width, data) == read_u64_loop(0, width, data, 0)

\* the `as ObjNr`, `as GenNr` and `as usize` casts keep every value below
\* 2^16, the only ones the streams hold
RECURSIVE section_loop(_, _, _, _, _)
section_loop(k, num_entries, width, data, entries) ==
    IF k >= num_entries THEN [st |-> "Ok", entries |-> entries, err |-> NoErr, data |-> data]
    ELSE LET t  == read_u64_from_stream(width[1], data)
             f1 == read_u64_from_stream(width[2], t.data)
             f2 == read_u64_from_stream(width[3], f1.data)
         IN  IF t.st # "Ok" \/ f1.st # "Ok" \/ f2.st # "Ok"
             THEN [st |-> "Panic", entries |-> <<>>, data |-> data,
                   err |-> <<"index out of bounds">>]
             ELSE IF t.val = 0
             THEN section_loop(k + 1, num_entries, width, f2.data, Append(entries,
                     [kind |-> "Free", a |-> f1.val, gen_nr |-> f2.val]))
             ELSE IF t.val = 1
             THEN section_loop(k + 1, num_entries, width, f2.data, Append(entries,
                     [kind |-> "Raw", a |-> f1.val, gen_nr |-> f2.val]))
             ELSE IF t.val = 2
             THEN section_loop(k + 1, num_entries, width, f2.data, Append(entries,
                     [kind |-> "Stream", a |-> f1.val, gen_nr |-> f2.val]))
             ELSE [st |-> "Err", entries |-> <<>>, data |-> f2.data,
                   err |-> <<"XRefStreamType", t.val>>]

parse_xref_section_from_stream(first_id, num_entries, width, data) ==
    LET r == section_loop(0, num_entries, width, data, <<>>)
    IN  [st |-> r.st, err |-> r.err, data |-> r.data,
         section |-> IF r.st = "Ok" THEN [first_id |-> first_id, entries |-> r.entries]
                     ELSE <<>>]

\* index.chunks(2).map(|c| (c[0], c[1])): c[1] of a last chunk of one is an
\* index panic
RECURSIVE stream_sections(_, _, _, _)
stream_sections(index, width, data_left, sections) ==
    IF Len(index) = 0
    THEN [st |-> "Ok", sections |-> sections, err |-> NoErr, left |-> data_left]
    ELSE IF Len(index) = 1
    THEN [st |-> "Panic", sections |-> <<>>, err |-> <<"index out of bounds">>,
          left |-> data_left]
    ELSE LET s == parse_xref_section_from_stream(index[1], index[2], width, data_left)
         IN  IF s.st # "Ok"
             THEN [st |-> s.st, sections |-> <<>>, err |-> s.err, left |-> s.data]
             ELSE stream_sections(SubSeq(index, 3, Len(index)), width, s.data,
                                  Append(sections, s.section))

parse_xref_stream_and_trailer(xref_stream) ==
    stream_sections(xref_stream.index, xref_stream.w, xref_stream.data, <<>>)

\* an xref stream has been read off the file and is to be decoded
InitStream ==
    /\ FileIdle
    /\ LoadIdle
    /\ \E n \in 0..MaxEntries : \E es \in [1..n -> StreamEntries] :
         \E w \in [1..3 -> Widths], first \in {0, 4}, counts \in CountsOf(n),
            cut \in {c \in {0, 1} : c <= n} :
              input = XRefStream(w, first, counts, es, cut)
    /\ output = None

ParseXRefStream ==
    /\ output = None
    /\ output' = Some(parse_xref_stream_and_trailer(input))
    /\ UNCHANGED <<input, fileVars, loadVars>>

NextStream == ParseXRefStream

SpecStream == InitStream /\ [][NextStream]_vars

\* the entry the k-th packed entry stands for at widths w
StreamEntryOf(w, e) ==
    [kind   |-> IF e.type = 0 THEN "Free" ELSE IF e.type = 1 THEN "Raw" ELSE "Stream",
     a      |-> e.f[1] % pow(256, w[2]),
     gen_nr |-> e.f[2] % pow(256, w[3])]

\* the entries of subsection j of the stream, counts giving the subsections' sizes
RECURSIVE SumTo(_, _)
SumTo(counts, j) == IF j = 0 THEN 0 ELSE counts[j] + SumTo(counts, j - 1)

ExpectedSections(x) ==
    [j \in 1..Len(x.counts) |->
        [first_id |-> x.index[2 * j - 1],
         entries  |-> [k \in 1..x.counts[j] |->
                          StreamEntryOf(x.w, x.entries[SumTo(x.counts, j - 1) + k])]]]

\* the packed entries whose type is none of 0, 1, 2
BadTypes(x) == { k \in 1..Len(x.entries) : x.entries[k].type \notin 0..2 }

FirstBad(x) == CHOOSE k \in BadTypes(x) : \A m \in BadTypes(x) : k <= m

\* C9: the decoder of an xref stream with widths W (each >= 1) and Index
\* pairs (first_id_j, count_j) returns one section per pair, in order, with
\* first_id_j and count_j entries, each read off w0+w1+w2 payload bytes as
\* three big-endian integers, type 0 giving Free, 1 Raw, 2 Compressed, and
\* the first entry of any other type making the result XRefStreamType{type}
C9_StreamSectionsDecoded ==
    IsSome(output) =>
        LET r == Unwrap(output)
        IN  IF BadTypes(input) = {}
            THEN /\ r.st = "Ok"
                 /\ r.sections = ExpectedSections(input)
                 /\ Len(r.left) =
                      Len(input.data) - Len(input.entries) * (input.w[1] + input.w[2] + input.w[3])
            ELSE /\ r.st = "Err"
                 /\ r.err = <<"XRefStreamType", input.entries[FirstBad(input)].type>>

\* the same, for the streams whose payload holds every byte the Index and
\* the widths ask for
StreamDecodedWhenPayloadSuffices ==
    input.cut = 0 => C9_StreamSectionsDecoded

(***************************************************************************)
(* Lexer: a buffer is a sequence of one-character strings, positions count *)
(* from 0 as in the code.  A result is Ok, Err (a returned PdfError),      *)
(* Panic (an index past the end of the buffer) or Hang (a loop that never  *)
(* ends).                                                                  *)
(***************************************************************************)
Lexed(st, word, pos, e) == [st |-> st, word |-> word, pos |-> pos, err |-> e]

at(buf, pos) == buf[pos + 1]

is_whitespace(buf, pos) ==
    IF pos >= Len(buf) THEN FALSE ELSE at(buf, pos) \in {" ", "\r", "\n", "\t"}

is_delimiter(buf, pos) ==
    IF pos >= Len(buf) THEN FALSE
    ELSE at(buf, pos) \in {"(", ")", "<", ">", "[", "]", "{", "}", "/", "%"}

advance_pos(buf, pos, forward) ==
    IF forward
    THEN IF pos < Len(buf) THEN Lexed("Ok", <<>>, pos + 1, NoErr)
         ELSE Lexed("Err", <<>>, pos, <<"EOF">>)
    ELSE IF pos > 0 THEN Lexed("Ok", <<>>, pos - 1, NoErr)
         ELSE Lexed("Err", <<>>, pos, <<"EOF">>)

\* the slice of the buffer a range names, a backward range turned round
new_substr(buf, start, end) ==
    LET s == IF start > end THEN end + 1 ELSE start
        e == IF start > end THEN start + 1 ELSE end
    IN  IF e > Len(buf) THEN Lexed("Panic", <<>>, start, <<"index out of bounds">>)
        ELSE Lexed("Ok", SubSeq(buf, s + 1, e), end, NoErr)

\* while self.is_whitespace(pos) { pos = self.advance_pos(pos, forward)? }
RECURSIVE skip_whitespace(_, _, _)
skip_whitespace(buf, pos, forward) ==
    IF is_whitespace(buf, pos)
    THEN LET a == advance_pos(buf, pos, forward)
         IN  IF a.st # "Ok" THEN a ELSE skip_whitespace(buf, a.pos, forward)
    ELSE Lexed("Ok", <<>>, pos, NoErr)

\* while self.buf[pos] == b'%' { ... }: a comment with no newline after it
\* leaves pos where it is, and the loop runs for ever; so does a backward
\* walk that the whitespace loop brings back onto the same `%`
RECURSIVE skip_comments(_, _, _)
skip_comments(buf, pos, forward) ==
    IF pos >= Len(buf) THEN Lexed("Panic", <<>>, pos, <<"index out of bounds">>)
    ELSE IF at(buf, pos) # "%" THEN Lexed("Ok", <<>>, pos, NoErr)
    ELSE LET nl == { i \in (pos + 1)..(Len(buf) - 1) : at(buf, i) = "\n" }
         IN  IF nl = {} THEN Lexed("Hang", <<>>, pos, NoErr)
             ELSE LET off == (CHOOSE i \in nl : \A j \in nl : i <= j) - (pos + 1)
                      w   == skip_whitespace(buf, pos + off + 2, forward)
                  IN  IF w.st # "Ok" THEN w
                      ELSE IF w.pos = pos THEN Lexed("Hang", <<>>, pos, NoErr)
                      ELSE skip_comments(buf, w.pos, forward)

\* while !self.is_whitespace(pos) && !self.is_delimiter(pos) { ... }
RECURSIVE read_lexeme(_, _, _)
read_lexeme(buf, pos, forward) ==
    IF ~is_whitespace(buf, pos) /\ ~is_delimiter(buf, pos)
    THEN LET a == advance_pos(buf, pos, forward)
         IN  IF a.st # "Ok" THEN a
             ELSE IF a.pos = pos THEN Lexed("Ok", <<>>, pos, NoErr)
             ELSE read_lexeme(buf, a.pos, forward)
    ELSE Lexed("Ok", <<>>, pos, NoErr)

\* lines 98-107: a delimiter is a lexeme of its own, `<<` and `>>` of two bytes
delimiter_lexeme(buf, start_pos, forward) ==
    IF at(buf, start_pos) \in {"<", ">"} /\ start_pos + 1 >= Len(buf)
    THEN Lexed("Panic", <<>>, start_pos, <<"index out of bounds">>)
    ELSE LET double == \/ at(buf, start_pos) = "<" /\ at(buf, start_pos + 1) = "<"
                       \/ at(buf, start_pos) = ">" /\ at(buf, start_pos + 1) = ">"
             second(p2) == IF p2.st # "Ok" THEN p2 ELSE new_substr(buf, start_pos, p2.pos)
             first(p1)  == IF p1.st # "Ok" THEN p1
                           ELSE second(advance_pos(buf, p1.pos, forward))
         IN  first(IF double THEN advance_pos(buf, start_pos, forward)
                   ELSE Lexed("Ok", <<>>, start_pos, NoErr))

\* lines 109-125: any other lexeme runs to whitespace or a delimiter, and
\* the whitespace after it is passed over
regular_lexeme(buf, start_pos, forward) ==
    LET finish(result, w2) == IF result.st # "Ok" THEN result
                              ELSE IF w2.st # "Ok" THEN w2
                              ELSE Lexed("Ok", result.word, w2.pos, NoErr)
        ended(e) == IF e.st # "Ok" THEN e
                    ELSE finish(new_substr(buf, start_pos, e.pos),
                                skip_whitespace(buf, e.pos, forward))
    IN  ended(read_lexeme(buf, start_pos, forward))

next_word(buf, pos0, forward) ==
    LET lexeme(c) == IF c.st # "Ok" THEN c
                     ELSE IF is_delimiter(buf, c.pos)
                     THEN delimiter_lexeme(buf, c.pos, forward)
                     ELSE regular_lexeme(buf, c.pos, forward)
        spaced(w1) == IF w1.st # "Ok" THEN w1
                      ELSE lexeme(skip_comments(buf, w1.pos, forward))
    IN  spaced(skip_whitespace(buf, pos0, forward))

next(buf, pos) == next_word(buf, pos, TRUE)

back(buf, pos) == next_word(buf, pos, FALSE)

peek(buf, pos) ==
    LET looked(r) == IF r.st = "Ok" THEN Lexed("Ok", r.word, pos, NoErr)
                     ELSE IF r.st = "Err" /\ r.err = <<"EOF">>
                     THEN Lexed("Ok", <<>>, pos, NoErr)
                     ELSE r
    IN  looked(next_word(buf, pos, TRUE))

next_expect(buf, pos, expected) ==
    LET check(word) == IF word.st # "Ok" THEN word
                       ELSE IF word.word = expected THEN word
                       ELSE Lexed("Err", word.word, word.pos,
                                  <<"UnexpectedLexeme", word.word>>)
    IN  check(next(buf, pos))

DigitChars == <<"0", "1", "2", "3", "4", "5", "6", "7", "8", "9">>

DigitVal(c) == (CHOOSE d \in 1..10 : DigitChars[d] = c) - 1

IsDigit(c) == \E d \in 1..10 : DigitChars[d] = c

RECURSIVE digits_val(_, _, _)
digits_val(word, k, acc) ==
    IF k > Len(word) THEN acc ELSE digits_val(word, k + 1, 10 * acc + DigitVal(word[k]))

\* Substr::to::<T> for an integer type T: an optional sign (only + when T
\* is unsigned) and then one digit at least.  The numbers the buffers hold
\* stay below 2^16, inside every integer type the code parses them into.
to_int(word, signed) ==
    LET neg  == signed /\ Len(word) > 0 /\ word[1] = "-"
        rest == IF Len(word) > 0 /\ (word[1] = "+" \/ neg) THEN Tail(word) ELSE word
    IN  IF Len(rest) > 0 /\ \A k \in 1..Len(rest) : IsDigit(rest[k])
        THEN [ok |-> TRUE, val |-> IF neg THEN 0 - digits_val(rest, 1, 0)
                                   ELSE digits_val(rest, 1, 0)]
        ELSE [ok |-> FALSE, val |-> 0]

is_integer(word) == to_int(word, TRUE).ok

\* Substr::to::<f32> succeeds: digits around one decimal point, or an integer
is_real_number(word) ==
    LET body == IF Len(word) > 0 /\ word[1] \in {"+", "-"} THEN Tail(word) ELSE word
        dots == { k \in 1..Len(body) : body[k] = "." }
    IN  /\ Cardinality(dots) <= 1
        /\ \A k \in (1..Len(body)) \ dots : IsDigit(body[k])
        /\ Len(body) > Cardinality(dots)

next_as(buf, pos, signed) ==
    LET convert(word, n) ==
            IF word.st # "Ok"
            THEN [st |-> word.st, val |-> 0, pos |-> word.pos, err |-> word.err]
            ELSE IF n.ok THEN [st |-> "Ok", val |-> n.val, pos |-> word.pos, err |-> NoErr]
            ELSE [st |-> "Err", val |-> 0, pos |-> word.pos, err |-> <<"Parse">>]
        lexed(word) == convert(word, IF word.st = "Ok" THEN to_int(word.word, signed)
                                     ELSE [ok |-> FALSE, val |-> 0])
    IN  lexed(next(buf, pos))

\* Lexer::offset_pos: seek(SeekFrom::Current(offset))
offset_pos(buf, pos, offset) ==
    LET moved(r) == Lexed(r.st, r.word, pos + offset, r.err)
    IN  moved(IF pos < pos + offset THEN new_substr(buf, pos, pos + offset)
              ELSE new_substr(buf, pos + offset, pos))

(***************************************************************************)
(* parse_with_lexer: one primitive off the lexer                           *)
(***************************************************************************)
Prim(t, a, b) == [t |-> t, a |-> a, b |-> b]

NoPrim == Prim("None", 0, 0)

Parsed(st, val, pos, e) == [st |-> st, val |-> val, pos |-> pos, err |-> e]

Failed(r) == Parsed(r.st, NoPrim, r.pos, r.err)

kw_stream == <<"s", "t", "r", "e", "a", "m">>
kw_endstream == <<"e", "n", "d">> \o kw_stream
kw_Length == <<"L", "e", "n", "g", "t", "h">>
kw_true == <<"t", "r", "u", "e">>
kw_false == <<"f", "a", "l", "s", "e">>
kw_null == <<"n", "u", "l", "l">>
kw_trailer == <<"t", "r", "a", "i", "l", "e", "r">>
kw_xref == <<"x", "r", "e", "f">>

RECURSIVE parse_with_lexer(_, _)
RECURSIVE dict_loop(_, _, _)
RECURSIVE array_loop(_, _, _)
RECURSIVE primitive_from(_, _)

\* lines 30-42: the entries of a dictionary up to its `>>`
dict_loop(buf, pos, dict) ==
    LET insert(key, obj) == IF obj.st # "Ok" THEN obj
                            ELSE dict_loop(buf, obj.pos, (key.word :> obj.val) @@ dict)
        keyed(key) == IF key.st # "Ok" THEN Failed(key)
                      ELSE insert(key, parse_with_lexer(buf, key.pos))
        entry(delimiter) ==
            IF delimiter.st # "Ok" THEN Failed(delimiter)
            ELSE IF delimiter.word = <<"/">> THEN keyed(next(buf, delimiter.pos))
            ELSE IF delimiter.word = <<">", ">">>
            THEN Parsed("Ok", Prim("Dictionary", dict, 0), delimiter.pos, NoErr)
            ELSE Parsed("Err", NoPrim, delimiter.pos,
                        <<"UnexpectedLexeme", delimiter.word>>)
    IN  entry(next(buf, pos))

\* lines 101-110: the elements of an array; one is parsed before `]` is
\* looked for
array_loop(buf, pos, array) ==
    LET closed(element, n) ==
            IF n.st # "Ok" THEN Failed(n)
            ELSE Parsed("Ok", Prim("Array", Append(array, element.val), 0), n.pos, NoErr)
        peeked(element, pk) ==
            IF pk.st # "Ok" THEN Failed(pk)
            ELSE IF pk.word = <<"]">> THEN closed(element, next(buf, element.pos))
            ELSE array_loop(buf, element.pos, Append(array, element.val))
        pushed(element) == IF element.st # "Ok" THEN element
                           ELSE peeked(element, peek(buf, element.pos))
    IN  pushed(parse_with_lexer(buf, pos))

\* lines 47-62: the payload of /Length bytes after `stream`, then
\* `endstream`.  The resolver the xref parsers pass resolves nothing.
read_stream(buf, n, dict) ==
    LET ended(stream_substr, e) ==
            IF e.st # "Ok" THEN Failed(e)
            ELSE Parsed("Ok", Prim("Stream", dict, stream_substr.word), e.pos, NoErr)
        payload(stream_substr) ==
            IF stream_substr.st # "Ok" THEN Failed(stream_substr)
            ELSE ended(stream_substr, next_expect(buf, stream_substr.pos, kw_endstream))
    IN  IF kw_Length \notin DOMAIN dict
        THEN Parsed("Err", NoPrim, n.pos, <<"MissingEntry", kw_Length>>)
        ELSE IF dict[kw_Length].t = "Reference"
        THEN Parsed("Err", NoPrim, n.pos, <<"Reference">>)
        ELSE IF dict[kw_Length].t # "Integer"
        THEN Parsed("Err", NoPrim, n.pos, <<"MissingEntry", kw_Length>>)
        ELSE IF dict[kw_Length].a < 0
        THEN Parsed("Panic", NoPrim, n.pos, <<"index out of bounds">>)
        ELSE payload(offset_pos(buf, n.pos, dict[kw_Length].a))

\* lines 43-65: a dictionary followed by `stream` is the head of a stream
stream_or_dictionary(buf, d) ==
    LET peeked(pk) == IF pk.st # "Ok" THEN Failed(pk)
                      ELSE IF pk.word # kw_stream THEN d
                      ELSE read_stream(buf, next(buf, d.pos), d.val.a)
    IN  IF d.st # "Ok" THEN d ELSE peeked(peek(buf, d.pos))

\* lines 66-90: an integer, or the reference `id gen R`
integer_or_reference(buf, first_lexeme) ==
    LET pos_bk  == first_lexeme.pos
        integer == Parsed("Ok", Prim("Integer", to_int(first_lexeme.word, TRUE).val, 0),
                          pos_bk, NoErr)
        reference(second_lexeme, third_lexeme) ==
            IF third_lexeme.st # "Ok" THEN Failed(third_lexeme)
            ELSE IF third_lexeme.word # <<"R">> THEN integer
            ELSE IF /\ to_int(first_lexeme.word, FALSE).ok
                    /\ to_int(second_lexeme.word, FALSE).ok
            THEN Parsed("Ok", Prim("Reference", to_int(first_lexeme.word, FALSE).val,
                                   to_int(second_lexeme.word, FALSE).val),
                        third_lexeme.pos, NoErr)
            ELSE Parsed("Err", NoPrim, third_lexeme.pos, <<"Parse">>)
        second(second_lexeme) ==
            IF second_lexeme.st # "Ok" THEN Failed(second_lexeme)
            ELSE IF ~is_integer(second_lexeme.word) THEN integer
            ELSE reference(second_lexeme, next(buf, second_lexeme.pos))
    IN  second(next(buf, pos_bk))

\* lines 94-97: a name
name(buf, pos) ==
    LET named(s) == IF s.st # "Ok" THEN Failed(s)
                    ELSE Parsed("Ok", Prim("Name", s.word, 0), s.pos, NoErr)
    IN  named(next(buf, pos))

\* the two string lexers (lexer/str.rs) are outside this model: a string
\* literal ends the parse as NotModelled
primitive_from(buf, first_lexeme) ==
    IF first_lexeme.st # "Ok" THEN Failed(first_lexeme)
    ELSE IF first_lexeme.word = <<"<", "<">>
    THEN stream_or_dictionary(buf, dict_loop(buf, first_lexeme.pos, <<>>))
    ELSE IF is_integer(first_lexeme.word)
    THEN integer_or_reference(buf, first_lexeme)
    ELSE IF is_real_number(first_lexeme.word)
    THEN Parsed("Ok", Prim("Number", first_lexeme.word, 0), first_lexeme.pos, NoErr)
    ELSE IF first_lexeme.word = <<"/">>
    THEN name(buf, first_lexeme.pos)
    ELSE IF first_lexeme.word = <<"[">>
    THEN array_loop(buf, first_lexeme.pos, <<>>)
    ELSE IF first_lexeme.word \in {<<"(">>, <<"<">>}
    THEN Parsed("NotModelled", NoPrim, first_lexeme.pos, NoErr)
    ELSE IF first_lexeme.word = kw_true
    THEN Parsed("Ok", Prim("Boolean", TRUE, 0), first_lexeme.pos, NoErr)
    ELSE IF first_lexeme.word = kw_false
    THEN Parsed("Ok", Prim("Boolean", FALSE, 0), first_lexeme.pos, NoErr)
    ELSE IF first_lexeme.word = kw_null
    THEN Parsed("Ok", Prim("Null", 0, 0), first_lexeme.pos, NoErr)
    ELSE Parsed("Err", NoPrim, first_lexeme.pos, <<"UnknownType", first_lexeme.word>>)

parse_with_lexer(buf, pos) == primitive_from(buf, next(buf, pos))

\* Primitive::to_dictionary of a primitive that is no reference
to_dictionary(p) ==
    IF p.t = "Dictionary" THEN [st |-> "Ok", dict |-> p.a, err |-> NoErr]
    ELSE [st |-> "Err", dict |-> <<>>, err |-> <<"UnexpectedPrimitive", p.t>>]

(***************************************************************************)
(* parse_xref_table_and_trailer: the subsections of a classic xref table   *)
(***************************************************************************)
Table(st, sections, tr, pos, e) ==
    [st |-> st, sections |-> sections, trailer |-> tr, pos |-> pos, err |-> e]

TableFailed(r) == Table(r.st, <<>>, <<>>, r.pos, r.err)

\* lines 83-94: the num_ids entry lines of a subsection
RECURSIVE entries_loop(_, _, _, _, _)
entries_loop(buf, pos, k, num_ids, entries) ==
    LET entry(w1, w2, w3) ==
            IF w3.st # "Ok" THEN w3
            ELSE IF w3.word \notin {<<"f">>, <<"n">>}
            THEN Lexed("Err", w3.word, w3.pos, <<"UnexpectedLexeme", w3.word>>)
            ELSE IF ~to_int(w1.word, FALSE).ok \/ ~to_int(w2.word, FALSE).ok
            THEN Lexed("Err", w3.word, w3.pos, <<"Parse">>)
            ELSE entries_loop(buf, w3.pos, k + 1, num_ids, Append(entries,
                   [kind   |-> IF w3.word = <<"f">> THEN "Free" ELSE "Raw",
                    a      |-> to_int(w1.word, FALSE).val,
                    gen_nr |-> to_int(w2.word, FALSE).val]))
        second(w1, w2) == IF w2.st # "Ok" THEN w2 ELSE entry(w1, w2, next(buf, w2.pos))
        first(w1) == IF w1.st # "Ok" THEN w1 ELSE second(w1, next(buf, w1.pos))
    IN  IF k >= num_ids
        THEN [st |-> "Ok", entries |-> entries, pos |-> pos, err |-> NoErr]
        ELSE first(next(buf, pos))

\* lines 97-102: `trailer` and the dictionary after it
read_trailer(buf, pos, sections) ==
    LET converted(trailer_prim, trailer_dict) ==
            IF trailer_dict.st # "Ok"
            THEN Table("Err", <<>>, <<>>, trailer_prim.pos, trailer_dict.err)
            ELSE Table("Ok", sections, trailer_dict.dict, trailer_prim.pos, NoErr)
        parsed(trailer_prim) ==
            IF trailer_prim.st # "Ok" THEN TableFailed(trailer_prim)
            ELSE converted(trailer_prim, to_dictionary(trailer_prim.val))
        expected(t) == IF t.st # "Ok" THEN TableFailed(t)
                       ELSE parsed(parse_with_lexer(buf, t.pos))
    IN  expected(next_expect(buf, pos, kw_trailer))

\* lines 78-95: one subsection, its header `start_id num_ids` first
RECURSIVE table_loop(_, _, _)
read_section(buf, pos, sections) ==
    LET pushed(start_id, section) ==
            IF section.st # "Ok" THEN TableFailed(section)
            ELSE table_loop(buf, section.pos, Append(sections,
                   [first_id |-> start_id.val, entries |-> section.entries]))
        counted(start_id, num_ids) ==
            IF num_ids.st # "Ok" THEN TableFailed(num_ids)
            ELSE pushed(start_id, entries_loop(buf, num_ids.pos, 0, num_ids.val, <<>>))
        started(start_id) ==
            IF start_id.st # "Ok" THEN TableFailed(start_id)
            ELSE counted(start_id, next_as(buf, start_id.pos, FALSE))
    IN  started(next_as(buf, pos, FALSE))

\* lines 77-96: subsections until `trailer` is the next lexeme
table_loop(buf, pos, sections) ==
    LET peeked(pk) == IF pk.st # "Ok" THEN TableFailed(pk)
                      ELSE IF pk.word = kw_trailer THEN read_trailer(buf, pos, sections)
                      ELSE read_section(buf, pos, sections)
    IN  peeked(peek(buf, pos))

parse_xref_table_and_trailer(buf, pos) == table_loop(buf, pos, <<>>)

(***************************************************************************)
(* Classic xref tables as they stand in a file                             *)
(***************************************************************************)
RECURSIVE dec(_)
dec(v) == IF v < 10 THEN <<DigitChars[v + 1]>> ELSE Append(dec(v \div 10), DigitChars[(v % 10) + 1])

RECURSIVE pad(_, _)
pad(digits, n) == IF Len(digits) >= n THEN digits ELSE pad(<<"0">> \o digits, n)

\* the entry lines the tables are drawn with: the two numbers and the marker
TableLines ==
    { [a |-> 0, gen |-> 65535, m |-> "f"], [a |-> 15, gen |-> 0, m |-> "n"],
      [a |-> 74, gen |-> 1, m |-> "n"], [a |-> 15, gen |-> 0, m |-> "x"] }

\* the 20 bytes of an entry line: `oooooooooo ggggg m \n`
LineText(l) ==
    pad(dec(l.a), 10) \o <<" ">> \o pad(dec(l.gen), 5) \o <<" ", l.m, " ", "\n">>

RECURSIVE LinesText(_, _, _)
LinesText(lines, from, to) ==
    IF from > to THEN <<>> ELSE LineText(lines[from]) \o LinesText(lines, from + 1, to)

\* the subsections from the j-th on: a header `first count` and its lines
RECURSIVE SectionsText(_, _, _, _, _)
SectionsText(first, counts, lines, j, done) ==
    IF j > Len(counts) THEN <<>>
    ELSE dec(first) \o <<" ">> \o dec(counts[j]) \o <<"\n">>
           \o LinesText(lines, done + 1, done + counts[j])
           \o SectionsText(first + counts[j] + 1, counts, lines, j + 1, done + counts[j])

\* the trailer dictionaries the tables end with, as written and as parsed
kw_Size == <<"S", "i", "z", "e">>
kw_Root == <<"R", "o", "o", "t">>

Trailers ==
    { [text |-> <<"<", "<", " ", "/">> \o kw_Size \o <<" ", "3", " ", ">", ">">>,
       dict |-> (kw_Size :> Prim("Integer", 3, 0))],
      [text |-> <<"<", "<", " ", "/">> \o kw_Size \o <<" ", "3", " ", "/">> \o kw_Root
                  \o <<" ", "1", " ", "0", " ", "R", " ", ">", ">">>,
       dict |-> (kw_Size :> Prim("Integer", 3, 0)) @@ (kw_Root :> Prim("Reference", 1, 0))] }

\* what follows the trailer dictionary in the buffer: nothing, or the
\* startxref lines of the file
Tails ==
    { <<>>,
      <<"\n", "s", "t", "a", "r", "t">> \o kw_xref
          \o <<"\n", "0", "\n", "%", "%", "E", "O", "F", "\n">> }

\* the ways of giving n lines to no subsection, to one or to two
TableCounts(n) == CountsOf(n) \cup (IF n = 0 THEN {<<>>} ELSE {})

\* the buffer of a table: `xref`, the subsections, `trailer`, a dictionary
\* and a tail
XRefTable(first, counts, lines, tr, tail) ==
    [buf |-> kw_xref \o <<"\n">> \o SectionsText(first, counts, lines, 1, 0)
               \o kw_trailer \o <<"\n">> \o tr.text \o tail,
     first |-> first, counts |-> counts, entries |-> lines,
     trailer |-> tr.dict, tail |-> tail]

\* a buffer holding a classic table is to be read
InitTable ==
    /\ FileIdle
    /\ LoadIdle
    /\ \E n \in 0..MaxEntries : \E lines \in [1..n -> TableLines] :
         \E first \in {0, 3}, counts \in TableCounts(n), tr \in Trailers, tail \in Tails :
              input = XRefTable(first, counts, lines, tr, tail)
    /\ output = None

\* read_xref_and_trailer_at has lexed `xref`; the table parser runs
ParseXRefTable ==
    /\ output = None
    /\ LET lexed(word) ==
               /\ word.st = "Ok"
               /\ word.word = kw_xref
               /\ output' = Some(parse_xref_table_and_trailer(input.buf, word.pos))
       IN  lexed(next(input.buf, 0))
    /\ UNCHANGED <<input, fileVars, loadVars>>

NextTable == ParseXRefTable

SpecTable == InitTable /\ [][NextTable]_vars

\* the entry a line of the table stands for
TableEntryOf(l) ==
    [kind |-> IF l.m = "f" THEN "Free" ELSE "Raw", a |-> l.a, gen_nr |-> l.gen]

\* the first id the j-th subsection of the table was written with
RECURSIVE FirstIdOf(_, _)
FirstIdOf(x, j) == IF j = 1 THEN x.first ELSE FirstIdOf(x, j - 1) + x.counts[j - 1] + 1

TableSections(x) ==
    [j \in 1..Len(x.counts) |->
        [first_id |-> FirstIdOf(x, j),
         entries  |-> [k \in 1..x.counts[j] |->
                          TableEntryOf(x.entries[SumTo(x.counts, j - 1) + k])]]]

\* the lines whose marker is neither n nor f
BadMarkers(x) == { k \in 1..Len(x.entries) : x.entries[k].m \notin {"n", "f"} }

\* C10: parse_xref_table_and_trailer, given a classic table of k
\* subsections `first_id count`, returns the k sections in file order with
\* their first_id and count entries, a line marked n being Raw(offset, gen)
\* and one marked f Free(next, gen), and returns the dictionary that follows
\* `trailer`; a line with any other marker makes it return UnexpectedLexeme
C10_TableSectionsAndTrailer ==
    IsSome(output) =>
        LET r == Unwrap(output)
        IN  IF BadMarkers(input) = {}
            THEN /\ r.st = "Ok"
                 /\ r.sections = TableSections(input)
                 /\ r.trailer = input.trailer
            ELSE /\ r.st = "Err"
                 /\ r.err = <<"UnexpectedLexeme", <<"x">>>>

\* the same, for the buffers that go on after the trailer dictionary
TableParsedWhenBufferGoesOn ==
    input.tail # <<>> => C10_TableSectionsAndTrailer

(***************************************************************************)
(* Lexer::seek_substr_back from the last byte, as locate_xref_offset runs  *)
(* it to find `startxref`                                                  *)
(***************************************************************************)
\* longest buffer the lexer is run over byte by byte
MaxLen == 4

\* the bytes the searched buffers are made of, and the words looked for
SeekBytes == {"a", "b", "c"}

Needles == {<<"a", "b">>, <<"b", "a", "b">>}

\* Lexer::seek(SeekFrom::End(offset)): len - offset - 1 is below zero for an
\* empty buffer, which panics or, wrapped, makes the slice panic
set_pos_from_end(buf, pos, new_pos) ==
    IF Len(buf) - new_pos - 1 < 0
    THEN Lexed("Panic", <<>>, pos, <<"index out of bounds">>)
    ELSE LET wanted_pos == Len(buf) - new_pos - 1
             moved(r) == Lexed(r.st, r.word, wanted_pos, r.err)
         IN  moved(IF pos < wanted_pos THEN new_substr(buf, pos, wanted_pos)
                   ELSE new_substr(buf, wanted_pos, pos))

\* lines 243-256: the loop; a byte that breaks a partial match is not
\* compared with the last byte of substr again
RECURSIVE seek_back_loop(_, _, _, _)
seek_back_loop(buf, pos, substr, matched) ==
    LET m == IF at(buf, pos) = substr[matched] THEN matched - 1 ELSE Len(substr)
    IN  IF m = 0 THEN Lexed("Ok", <<>>, pos, NoErr)
        ELSE IF pos = 0 THEN Lexed("Err", <<>>, pos, <<"NotFound", substr>>)
        ELSE seek_back_loop(buf, pos - 1, substr, m)

seek_substr_back(buf, start, substr) ==
    LET found(l) == IF l.st # "Ok" THEN l
                    ELSE LET r == new_substr(buf, l.pos + Len(substr), start)
                         IN  Lexed(r.st, r.word, l.pos + Len(substr), r.err)
    IN  found(seek_back_loop(buf, start, substr, Len(substr)))

\* backend.rs lines 28-30: a lexer over the file, set on its last byte,
\* seeks the word backward
seek_from_end(buf, substr) ==
    LET placed(e) == IF e.st # "Ok" THEN e ELSE seek_substr_back(buf, e.pos, substr)
    IN  placed(set_pos_from_end(buf, 0, 0))

\* a buffer and a word to look for in it
InitSeek ==
    /\ FileIdle
    /\ LoadIdle
    /\ \E n \in 0..MaxLen : \E buf \in [1..n -> SeekBytes] : \E substr \in Needles :
         input = [buf |-> buf, substr |-> substr]
    /\ output = None

SeekSubstrBack ==
    /\ output = None
    /\ output' = Some(seek_from_end(input.buf, input.substr))
    /\ UNCHANGED <<input, fileVars, loadVars>>

NextSeek == SeekSubstrBack

SpecSeek == InitSeek /\ [][NextSeek]_vars

\* the positions just after an occurrence of substr in buf
OccurrenceEnds(buf, substr) ==
    { e \in Len(substr)..Len(buf) : SubSeq(buf, e - Len(substr) + 1, e) = substr }

\* C11: seek_substr_back(s) started from the last byte finds the last
\* occurrence of s whenever s occurs in the buffer and leaves the cursor on
\* the byte just after it; it returns NotFound only when s does not occur
C11_SeekBackFindsLastOccurrence ==
    IsSome(output) =>
        LET r    == Unwrap(output)
            ends == OccurrenceEnds(input.buf, input.substr)
        IN  IF ends = {}
            THEN r.st = "Err" /\ r.err = <<"NotFound", input.substr>>
            ELSE r.st = "Ok" /\ \A e \in ends : e <= r.pos /\ r.pos \in ends

(***************************************************************************)
(* parse: parse_with_lexer over a whole buffer, from position 0            *)
(***************************************************************************)
\* the bytes stream payloads are made of
PayloadBytes == {"a", " ", "\n", "\r"}

\* the ends of line that may stand between `stream` and the payload
EOLs == {<<"\n">>, <<"\r">>, <<"\r", "\n">>}

\* a stream object as a writer lays it out: the dictionary with /Length,
\* `stream`, one end of line, the payload, an end of line and `endstream`
StreamObject(payload, eol) ==
    [kind |-> "stream", payload |-> payload,
     buf  |-> <<"<", "<", " ", "/">> \o kw_Length \o <<" ">> \o dec(Len(payload))
                \o <<" ", ">", ">", "\n">> \o kw_stream \o eol \o payload
                \o <<"\n">> \o kw_endstream \o <<"\n">>]

\* the lexemes the buffers of numbers are made of
Tokens == {<<"1", "2">>, <<"7">>, <<"R">>, <<"/">>, <<"]">>, <<"o", "b", "j">>}

RECURSIVE Joined(_, _)
Joined(toks, k) ==
    IF k > Len(toks) THEN <<>>
    ELSE toks[k] \o (IF k < Len(toks) THEN <<" ">> ELSE <<>>) \o Joined(toks, k + 1)

\* lexemes set one space apart, with a tail of nothing or of one space
TokenBuffer(toks, tail) ==
    [kind |-> "tokens", toks |-> toks, tail |-> tail, buf |-> Joined(toks, 1) \o tail]

InitParse ==
    /\ FileIdle
    /\ LoadIdle
    /\ \/ \E n \in 0..MaxLen : \E payload \in [1..n -> PayloadBytes] : \E eol \in EOLs :
            input = StreamObject(payload, eol)
       \/ \E n \in 1..3 : \E toks \in [1..n -> Tokens] : \E tail \in {<<>>, <<" ">>} :
            /\ is_integer(toks[1])
            /\ input = TokenBuffer(toks, tail)
    /\ output = None

\* parse(data, r): parse_with_lexer(&mut Lexer::new(data), r)
parse(data) == parse_with_lexer(data, 0)

Parse ==
    /\ output = None
    /\ output' = Some(parse(input.buf))
    /\ UNCHANGED <<input, fileVars, loadVars>>

NextParse == Parse

SpecParse == InitParse /\ [][NextParse]_vars

\* C12: for a stream object whose /Length is n the parser returns as payload
\* exactly the n bytes that begin right after `stream` and one end of line
\* (CR, LF or CRLF), whatever the payload's bytes, whitespace first bytes
\* included, `endstream` being expected after those n bytes
C12_StreamPayloadIsLengthBytes ==
    (IsSome(output) /\ input.kind = "stream") =>
        /\ Unwrap(output).st = "Ok"
        /\ Unwrap(output).val.t = "Stream"
        /\ Unwrap(output).val.b = input.payload

\* the same, for the payloads that do not begin with a whitespace byte
StreamPayloadWhenNoLeadingWhitespace ==
    (input.kind = "stream" /\ (input.payload = <<>> \/ input.payload[1] = "a")) =>
        C12_StreamPayloadIsLengthBytes

\* the buffer is exactly `<a> <b> R`
IsReferenceBuffer ==
    /\ input.kind = "tokens"
    /\ Len(input.toks) = 3
    /\ is_integer(input.toks[2])
    /\ input.toks[3] = <<"R">>

\* C13: parse of a buffer that is exactly `<a> <b> R`, ending right after
\* the R, returns Reference{id: a, gen: b}
C13_ReferenceAtEndOfBuffer ==
    (IsSome(output) /\ IsReferenceBuffer /\ input.tail = <<>>) =>
        /\ Unwrap(output).st = "Ok"
        /\ Unwrap(output).val = Prim("Reference", digits_val(input.toks[1], 1, 0),
                                     digits_val(input.toks[2], 1, 0))

\* the same, for the buffers in which a space follows the R
ReferenceWhenBufferGoesOn ==
    (IsSome(output) /\ IsReferenceBuffer /\ input.tail # <<>>) =>
        /\ Unwrap(output).st = "Ok"
        /\ Unwrap(output).val = Prim("Reference", digits_val(input.toks[1], 1, 0),
                                     digits_val(input.toks[2], 1, 0))

\* the position right after the first lexeme and the whitespace behind it
AfterFirstLexeme ==
    IF Len(input.toks) > 1 THEN Len(input.toks[1]) + 1
    ELSE Len(input.toks[1]) + Len(input.tail)

\* C14: when the first lexeme is an integer and the lexemes after it do not
\* form `int R`, fewer than two lexemes following included, parse_with_lexer
\* returns Integer of the first lexeme and leaves the cursor where it was
\* right after reading that lexeme
C14_IntegerRollsBack ==
    (IsSome(output) /\ input.kind = "tokens" /\ ~IsReferenceBuffer) =>
        /\ Unwrap(output).st = "Ok"
        /\ Unwrap(output).val = Prim("Integer", digits_val(input.toks[1], 1, 0), 0)
        /\ Unwrap(output).pos = AfterFirstLexeme

\* the same, for the buffers in which the two lexemes looked ahead at can be
\* read: two follow the first and a space follows the last, or the second is
\* a delimiter with a byte after it
IntegerRollsBackWhenLexemesFollow ==
    (/\ input.kind = "tokens"
     /\ \/ Len(input.toks) = 3 /\ (input.tail # <<>> \/ input.toks[3] \in {<<"/">>, <<"]">>})
        \/ Len(input.toks) >= 2 /\ input.toks[2] \in {<<"/">>, <<"]">>}
             /\ (Len(input.toks) = 3 \/ input.tail # <<>>))
        => C14_IntegerRollsBack

(***************************************************************************)
(* Arrays                                                                  *)
(***************************************************************************)
\* largest number of elements of a parsed array
MaxElems == 3

\* the elements written into the arrays, each with the bytes that spell it
\* and the primitive it denotes
Elements ==
    { [bytes |-> <<"7">>, val |-> Prim("Integer", 7, 0)],
      [bytes |-> <<"/", "a">>, val |-> Prim("Name", <<"a">>, 0)],
      [bytes |-> <<"1", " ", "0", " ", "R">>, val |-> Prim("Reference", 1, 0)] }

\* `[`, the elements one space apart, `]` (after a space or not) and a tail
ArrayBuffer(es, sp, tail) ==
    LET body == Joined([i \in 1..Len(es) |-> es[i].bytes], 1) \o (IF sp THEN <<" ">> ELSE <<>>)
    IN  [kind |-> "array", elems |-> [i \in 1..Len(es) |-> es[i].val],
         close |-> Len(body) + 2, buf |-> <<"[">> \o body \o <<"]">> \o tail]

InitArray ==
    /\ FileIdle
    /\ LoadIdle
    /\ \E n \in 0..MaxElems : \E es \in [1..n -> Elements] : \E sp \in BOOLEAN :
       \E tail \in {<<>>, <<" ">>, <<" ", "/", "a", " ">>} :
         input = ArrayBuffer(es, sp, tail)
    /\ output = None

SpecArray == InitArray /\ [][NextParse]_vars

\* C27: parsing `[` e1 ... en `]` returns Array of exactly the n elements
\* in order and leaves the cursor just after the `]`, for every n >= 0,
\* the empty array `[]` included
C27_ArrayOfItsElements ==
    (IsSome(output) /\ input.kind = "array") =>
        /\ Unwrap(output).st = "Ok"
        /\ Unwrap(output).val = Prim("Array", input.elems, 0)
        /\ Unwrap(output).pos = input.close

\* the same, for the arrays that have an element and bytes after the `]`
ArrayOfItsElementsWhenNotEmpty ==
    (input.kind = "array" /\ input.elems # <<>> /\ Len(input.buf) > input.close) =>
        C27_ArrayOfItsElements

\* the empty array is never parsed
EmptyArrayFails ==
    (IsSome(output) /\ input.kind = "array" /\ input.elems = <<>>) => Unwrap(output).st # "Ok"

(***************************************************************************)
(* The lexer driven by its callers: next() repeated, next() then back(),   *)
(* and peek()                                                              *)
(***************************************************************************)
\* the bytes the lexed buffers are made of: a regular byte, whitespace,
\* delimiters and the comment sign
LexBytes == {"a", " ", "\n", "/", "<", "%"}

Whitespace == {" ", "\r", "\n", "\t"}

Delimiters == {"(", ")", "<", ">", "[", "]", "{", "}", "/", "%"}

\* a lexer over a buffer, its cursor anywhere from the start to the end
InitLexer ==
    /\ FileIdle
    /\ LoadIdle
    /\ \E n \in 0..MaxLen : \E buf \in [1..n -> LexBytes] : \E pos \in 0..n :
         input = [buf |-> buf, pos |-> pos]
    /\ output = None

\* next() called until it does not return a lexeme
RECURSIVE next_all(_, _, _)
next_all(buf, pos, lexemes) ==
    LET lexed(r) == IF r.st = "Ok" THEN next_all(buf, r.pos, Append(lexemes, r.word))
                    ELSE [op |-> "next_all", lexemes |-> lexemes, st |-> r.st, err |-> r.err]
    IN  lexed(next(buf, pos))

NextAll ==
    /\ output = None
    /\ input.pos = 0
    /\ output' = Some(next_all(input.buf, 0, <<>>))
    /\ UNCHANGED <<input, fileVars, loadVars>>

\* next(), then back(), then next() again, as read_xref_and_trailer_at and
\* the indirect-stream parser it calls do
next_back_next(buf, pos) ==
    LET NoLex == Lexed("None", <<>>, 0, NoErr)
        res(n, b, a) == [op |-> "next_back", first |-> n, back |-> b, again |-> a]
        third(n, b) == IF b.st # "Ok" THEN res(n, b, NoLex) ELSE res(n, b, next(buf, b.pos))
        second(n) == IF n.st # "Ok" THEN res(n, NoLex, NoLex) ELSE third(n, back(buf, n.pos))
    IN  second(next(buf, pos))

NextBack ==
    /\ output = None
    /\ output' = Some(next_back_next(input.buf, input.pos))
    /\ UNCHANGED <<input, fileVars, loadVars>>

Peek ==
    /\ output = None
    /\ output' = Some([op |-> "peek", peeked |-> peek(input.buf, input.pos),
                       next |-> next(input.buf, input.pos)])
    /\ UNCHANGED <<input, fileVars, loadVars>>

NextLexer == NextAll \/ NextBack \/ Peek

SpecLexer == InitLexer /\ [][NextLexer]_vars

\* the reference tokenization of buf from position i (counted from 1)
RECURSIVE RunEnd(_, _)
RunEnd(buf, i) ==
    IF i > Len(buf) \/ buf[i] \in Whitespace \cup Delimiters THEN i ELSE RunEnd(buf, i + 1)

RECURSIVE LineEnd(_, _)
LineEnd(buf, i) == IF i > Len(buf) THEN i ELSE IF buf[i] = "\n" THEN i + 1 ELSE LineEnd(buf, i + 1)

RECURSIVE RefTokens(_, _)
RefTokens(buf, i) ==
    IF i > Len(buf) THEN <<>>
    ELSE IF buf[i] \in Whitespace THEN RefTokens(buf, i + 1)
    ELSE IF buf[i] = "%" THEN RefTokens(buf, LineEnd(buf, i))
    ELSE IF i < Len(buf) /\ buf[i] \in {"<", ">"} /\ buf[i + 1] = buf[i]
    THEN <<SubSeq(buf, i, i + 1)>> \o RefTokens(buf, i + 2)
    ELSE IF buf[i] \in Delimiters THEN <<SubSeq(buf, i, i)>> \o RefTokens(buf, i + 1)
    ELSE <<SubSeq(buf, i, RunEnd(buf, i) - 1)>> \o RefTokens(buf, RunEnd(buf, i))

\* C15: the lexemes repeated next() produces from position 0 are the
\* reference tokenization (whitespace and comments separate lexemes, `<<`
\* and `>>` are two-byte lexemes, any other delimiter byte a lexeme of its
\* own, a maximal run of other bytes one lexeme), and EOF is reported only
\* once no lexeme remains
C15_NextYieldsReferenceTokens ==
    (IsSome(output) /\ Unwrap(output).op = "next_all") =>
        /\ Unwrap(output).lexemes = RefTokens(input.buf, 1)
        /\ Unwrap(output).st = "Err"
        /\ Unwrap(output).err = <<"EOF">>

\* the lexemes next() does return are the first ones of the reference
\* tokenization
NextYieldsFirstReferenceTokens ==
    (IsSome(output) /\ Unwrap(output).op = "next_all") =>
        /\ Len(Unwrap(output).lexemes) <= Len(RefTokens(input.buf, 1))
        /\ Unwrap(output).lexemes =
             SubSeq(RefTokens(input.buf, 1), 1, Len(Unwrap(output).lexemes))

\* C16: if next() returned the lexeme L from position p, a back() right
\* after it returns L and puts the cursor on the first byte of L, so that
\* the next next() returns L again
C16_BackReturnsToLexeme ==
    (IsSome(output) /\ Unwrap(output).op = "next_back" /\ Unwrap(output).first.st = "Ok") =>
        LET o == Unwrap(output)
        IN  /\ o.back.st = "Ok"
            /\ o.back.word = o.first.word
            /\ SubSeq(input.buf, o.back.pos + 1, o.back.pos + Len(o.first.word)) = o.first.word
            /\ o.back.pos >= input.pos
            /\ o.again.st = "Ok"
            /\ o.again.word = o.first.word

\* nothing but whitespace lies between the cursor and the end of the buffer
NoLexemeRemains == \A i \in (input.pos + 1)..Len(input.buf) : input.buf[i] \in Whitespace

\* C17: peek() leaves the cursor alone and returns the lexeme the next
\* next() would return; when no lexeme remains it returns Ok with an empty
\* substring, not an error and not an abort
C17_PeekReturnsNextLexeme ==
    (IsSome(output) /\ Unwrap(output).op = "peek") =>
        LET o == Unwrap(output)
        IN  /\ o.peeked.st = "Ok"
            /\ o.peeked.pos = input.pos
            /\ o.next.st = "Ok" => o.peeked.word = o.next.word
            /\ NoLexemeRemains => o.peeked.word = <<>>

\* the same, for the cursors from which next() returns a lexeme
PeekReturnsNextLexemeWhenOneIsRead ==
    (IsSome(output) /\ Unwrap(output).op = "peek" /\ Unwrap(output).next.st = "Ok") =>
        C17_PeekReturnsNextLexeme

\* C25: next() and peek() return (a lexeme or an error) on every buffer
\* and cursor, also at a `%` comment that no newline follows
C25_NextAndPeekTerminate ==
    (IsSome(output) /\ Unwrap(output).op = "peek") =>
        /\ Unwrap(output).next.st # "Hang"
        /\ Unwrap(output).peeked.st # "Hang"

\* every `%` from the cursor on has a newline after it
CommentsEnd ==
    \A i \in (input.pos + 1)..Len(input.buf) :
        input.buf[i] = "%" => \E j \in (i + 1)..Len(input.buf) : input.buf[j] = "\n"

\* next() and peek() return when the comments ahead end in a newline
NextAndPeekTerminateWhenCommentsEnd == CommentsEnd => C25_NextAndPeekTerminate

(***************************************************************************)
(* The record decoder #[derive(Object)] generates                          *)
(***************************************************************************)
\* largest number of fields of a declared record
MaxFields == 2

FieldKeys == <<"Width", "Height", "Index">>

FieldTypes == {"i32", "Option<i32>"}

\* the value a field's `default` expression evaluates to
DefaultValue == 40

\* a string literal of an attribute, piece by piece: "XObject?" is
\* <<"XObject", "?">>
TypeLits == {<<"XObject">>, <<"XObject", "?">>}

Meta(ident, lit) == [ident |-> ident, lit |-> lit]

\* the #[pdf(...)] lists of a record: with or without Type, with or without
\* a Subtype check
MetaLists ==
    {<<>>, <<Meta("Subtype", <<"Image">>)>>}
    \cup { <<Meta("Type", t)>> : t \in TypeLits }
    \cup { <<Meta("Type", t), Meta("Subtype", <<"Image">>)>> : t \in TypeLits }

\* the values an entry of the decoded dictionary may have
EntryValues == {Prim("Name", <<"XObject">>, 0), Prim("Name", <<"Image">>, 0),
                Prim("Integer", 1, 0), Prim("Null", 0, 0)}

DictKeys(n) == {"Type", "Subtype"} \cup {FieldKeys[i] : i \in 1..n}

GlobalAttrs(checks, type_name, type_required) ==
    [checks |-> checks, type_name |-> type_name, type_required |-> type_required]

\* lines 189-211: the loop of GlobalAttrs::from_ast over the list
RECURSIVE from_ast_loop(_, _)
from_ast_loop(list, attrs) ==
    IF list = <<>> THEN attrs
    ELSE LET meta == Head(list)
             value == meta.lit
             ends_with == value # <<>> /\ value[Len(value)] = "?"
         IN  IF meta.ident = "Type"
             THEN from_ast_loop(Tail(list),
                      GlobalAttrs(attrs.checks,
                                  Some(IF ends_with THEN SubSeq(value, 1, Len(value) - 1)
                                       ELSE value),
                                  ends_with))
             ELSE from_ast_loop(Tail(list),
                      GlobalAttrs(Append(attrs.checks, <<meta.ident, value>>),
                                  attrs.type_name, attrs.type_required))

from_ast(list) == from_ast_loop(list, GlobalAttrs(<<>>, None, FALSE))

\* Dictionary::expect(key, value, required): a missing entry is an error
\* when required, an entry that is not the name `value` always
expect(dict, key, value, required) ==
    IF key \notin DOMAIN dict
    THEN IF required THEN <<"MissingEntry", key>> ELSE NoErr
    ELSE IF dict[key] = Prim("Name", value, 0) THEN NoErr
    ELSE <<"KeyValueMismatch", key>>

\* <T as Object>::from_primitive for the field types i32 and Option<i32>
field_from_primitive(ty, p) ==
    IF ty = "i32"
    THEN IF p.t = "Integer" THEN [st |-> "Ok", val |-> p.a]
         ELSE [st |-> "Err", val |-> 0]
    ELSE IF p.t = "Null" THEN [st |-> "Ok", val |-> None]
    ELSE IF p.t = "Integer" THEN [st |-> "Ok", val |-> Some(p.a)]
    ELSE [st |-> "Err", val |-> 0]

Decoded(st, e, values, calls, evals) ==
    [st |-> st, err |-> e, values |-> values, calls |-> calls, evals |-> evals]

\* lines 412-416: the checks other than Type, all of them required
RECURSIVE checks_loop(_, _)
checks_loop(checks, dict) ==
    IF checks = <<>> THEN NoErr
    ELSE LET checked(e) == IF e # NoErr THEN e ELSE checks_loop(Tail(checks), dict)
         IN  checked(expect(dict, Head(checks)[1], Head(checks)[2], TRUE))

\* lines 418-423
ty_check(attrs, dict) ==
    IF IsSome(attrs.type_name)
    THEN expect(dict, "Type", Unwrap(attrs.type_name), attrs.type_required)
    ELSE NoErr

FieldDecl(ident, key, ty, default) == [name |-> ident, key |-> key, ty |-> ty, default |-> default]

LetPart(st, e, val, call, eval) == [st |-> st, err |-> e, val |-> val, call |-> call, eval |-> eval]

\* the same, with the default expression evaluated before the entry is
\* looked at
let_part_eager(typ, field, dict) ==
    LET decoded(primitive, x) ==
            IF x.st = "Ok" THEN LetPart("Ok", NoErr, x.val, Some(primitive), IsSome(field.default))
            ELSE LetPart("Err", <<"FromPrimitive", typ, field.name>>, 0, Some(primitive),
                         IsSome(field.default))
        tried(x) ==
            IF x.st = "Ok" THEN LetPart("Ok", NoErr, x.val, Some(Prim("Null", 0, 0)), FALSE)
            ELSE LetPart("Err", <<"MissingEntry", field.ty, field.name>>, 0,
                         Some(Prim("Null", 0, 0)), FALSE)
    IN  IF field.key \in DOMAIN dict
        THEN decoded(dict[field.key], field_from_primitive(field.ty, dict[field.key]))
        ELSE IF IsSome(field.default)
        THEN LetPart("Ok", NoErr, Unwrap(field.default), None, TRUE)
        ELSE tried(field_from_primitive(field.ty, Prim("Null", 0, 0)))

\* lines 361-414: the code generated for one field; `call` is the
\* primitive the field's decoder was called with, `eval` whether the
\* default expression was evaluated
let_part(typ, field, dict) ==
    LET decoded(primitive, x) ==
            IF x.st = "Ok" THEN LetPart("Ok", NoErr, x.val, Some(primitive), FALSE)
            ELSE IF IsSome(field.default)
            THEN LetPart("Err", <<"FromPrimitive", typ, field.name>>, 0, Some(primitive), FALSE)
            ELSE LetPart("Err", <<"FromPrimitive", field.ty, field.name>>, 0, Some(primitive),
                         FALSE)
        tried(x) ==
            IF x.st = "Ok" THEN LetPart("Ok", NoErr, x.val, Some(Prim("Null", 0, 0)), FALSE)
            ELSE LetPart("Err", <<"MissingEntry", field.ty, field.name>>, 0,
                         Some(Prim("Null", 0, 0)), FALSE)
    IN  IF field.key \in DOMAIN dict
        THEN decoded(dict[field.key], field_from_primitive(field.ty, dict[field.key]))
        ELSE IF IsSome(field.default)
        THEN LetPart("Ok", NoErr, Unwrap(field.default), None, TRUE)
        ELSE tried(field_from_primitive(field.ty, Prim("Null", 0, 0)))

\* #( #let_parts )*: the fields in declaration order, each removing its
\* entry from the dictionary; the first failure returns
RECURSIVE let_parts(_, _, _, _)
let_parts(typ, fields, dict, acc) ==
    IF fields = <<>> THEN acc
    ELSE LET field == Head(fields)
             rest(part) ==
                 LET calls == IF IsSome(part.call)
                              THEN Append(acc.calls, <<field.name, Unwrap(part.call)>>)
                              ELSE acc.calls
                     evals == IF part.eval THEN Append(acc.evals, field.name) ELSE acc.evals
                 IN  IF part.st # "Ok"
                     THEN Decoded("Err", part.err, acc.values, calls, evals)
                     ELSE let_parts(typ, Tail(fields),
                                    [k \in DOMAIN dict \ {field.key} |-> dict[k]],
                                    Decoded("Ok", NoErr, Append(acc.values, part.val),
                                            calls, evals))
         IN  rest(let_part(typ, field, dict))

\* lines 435-443: the body of the derived from_primitive
from_primitive_code(decl, p) ==
    LET attrs == from_ast(decl.meta)
        fields(dict) == let_parts(decl.typ, decl.fields, dict,
                                  Decoded("Ok", NoErr, <<>>, <<>>, <<>>))
        checked(dict, e) == IF e # NoErr THEN Decoded("Err", e, <<>>, <<>>, <<>>)
                            ELSE fields(dict)
        typed(dict, e)   == IF e # NoErr THEN Decoded("Err", e, <<>>, <<>>, <<>>)
                            ELSE checked(dict, checks_loop(attrs.checks, dict))
        coerced(d) == IF d.st # "Ok" THEN Decoded("Err", d.err, <<>>, <<>>, <<>>)
                      ELSE typed(d.dict, ty_check(attrs, d.dict))
    IN  coerced(to_dictionary(p))

FieldNames == <<"width", "height", "index">>

\* a declared record and a primitive to decode it from
InitDerive ==
    /\ FileIdle
    /\ LoadIdle
    /\ \E n \in 0..MaxFields : \E meta \in MetaLists :
       \E tys \in [1..n -> FieldTypes] : \E defaults \in [1..n -> {None, Some(DefaultValue)}] :
       \E keys \in SUBSET DictKeys(n) :
       \E dict \in [keys -> {Prim("Name", <<"XObject">>, 0), Prim("Name", <<"Image">>, 0),
                             Prim("Integer", 1, 0)}] :
       \E p \in {Prim("Dictionary", dict, 0), Prim("Integer", 1, 0)} :
         /\ \A k \in keys \cap {"Type", "Subtype"} : dict[k].t = "Name"
         /\ \A k \in keys \ {"Type", "Subtype"} : dict[k] # Prim("Name", <<"Image">>, 0)
         /\ p.t # "Dictionary" => keys = {}
         /\ input = [decl |-> [typ |-> "ImageDictionary", meta |-> meta,
                               fields |-> [i \in 1..n |->
                                   FieldDecl(FieldNames[i], FieldKeys[i], tys[i], defaults[i])]],
                     p |-> p]
    /\ output = None

FromPrimitive ==
    /\ output = None
    /\ output' = Some(from_primitive_code(input.decl, input.p))
    /\ UNCHANGED <<input, fileVars, loadVars>>

NextDerive == FromPrimitive

SpecDerive == InitDerive /\ [][NextDerive]_vars

\* the record is declared #[pdf(Type="XObject", Subtype="Image")]
DeclaredImage ==
    input.decl.meta = <<Meta("Type", <<"XObject">>), Meta("Subtype", <<"Image">>)>>

HasName(p, key, value) ==
    /\ p.t = "Dictionary"
    /\ key \in DOMAIN p.a
    /\ p.a[key] = Prim("Name", value, 0)

\* C18: for a record declared #[pdf(Type="XObject", Subtype="Image")] the
\* derived from_primitive accepts a dictionary only if its /Type entry is
\* present and equals XObject and its /Subtype entry is present and equals
\* Image
C18_TypeAndSubtypeEnforced ==
    (IsSome(output) /\ DeclaredImage /\ Unwrap(output).st = "Ok") =>
        /\ HasName(input.p, "Type", <<"XObject">>)
        /\ HasName(input.p, "Subtype", <<"Image">>)

\* the same record accepts no dictionary whose /Type is another name, and
\* none without /Subtype = Image
PresentTypeAndSubtypeEnforced ==
    (IsSome(output) /\ DeclaredImage /\ Unwrap(output).st = "Ok") =>
        /\ "Type" \in DOMAIN input.p.a => HasName(input.p, "Type", <<"XObject">>)
        /\ HasName(input.p, "Subtype", <<"Image">>)

\* the number of fields the decoder went through: those decoded, and the
\* one that failed
FieldsReached ==
    LET o == Unwrap(output)
    IN  IF o.st = "Err" /\ Len(o.err) = 3 THEN Len(o.values) + 1 ELSE Len(o.values)

CallsOf(i) ==
    LET o == Unwrap(output)
    IN  [j \in { j \in 1..Len(o.calls) : o.calls[j][1] = input.decl.fields[i].name } |->
            o.calls[j][2]]

\* C19: for a declared field whose key is absent from the dictionary, a
\* declared default is the field's value and the field decoder is not
\* called; without a default the decoder is applied to Null, its value is
\* used on success and MissingEntry naming the field is returned on
\* failure; the default of a field whose key is present is never evaluated
C19_AbsentKeyDefaultOrNull ==
    IsSome(output) =>
        LET o == Unwrap(output)
        IN  \A i \in 1..FieldsReached :
                LET field == input.decl.fields[i]
                    null  == field_from_primitive(field.ty, Prim("Null", 0, 0))
                IN  IF field.key \in DOMAIN input.p.a
                    THEN field.name \notin {o.evals[j] : j \in 1..Len(o.evals)}
                    ELSE IF IsSome(field.default)
                    THEN /\ i <= Len(o.values)
                         /\ o.values[i] = Unwrap(field.default)
                         /\ DOMAIN CallsOf(i) = {}
                    ELSE /\ \E j \in DOMAIN CallsOf(i) : CallsOf(i)[j] = Prim("Null", 0, 0)
                         /\ Cardinality(DOMAIN CallsOf(i)) = 1
                         /\ IF null.st = "Ok"
                            THEN i <= Len(o.values) /\ o.values[i] = null.val
                            ELSE /\ i = Len(o.values) + 1
                                 /\ o.err = <<"MissingEntry", field.ty, field.name>>

\* both cases of an absent key have happened: the default of the first
\* field was used, the second field was decoded from Null and MissingEntry
\* returned for it
C19_Witness ==
    /\ IsSome(output)
    /\ Unwrap(output).st = "Err"
    /\ Unwrap(output).err = <<"MissingEntry", "i32", FieldNames[2]>>
    /\ Len(Unwrap(output).values) = 1
    /\ Unwrap(output).evals = <<FieldNames[1]>>
    /\ FieldKeys[1] \notin DOMAIN input.p.a

(***************************************************************************)
(* crypt.rs: the RC4 standard security handler                             *)
(***************************************************************************)
PADDING ==
    <<40, 191, 78, 94, 78, 117, 138, 65, 100, 0, 78, 86, 255, 250, 1, 8,
      46, 46, 0, 182, 208, 104, 62, 128, 47, 12, 169, 254, 100, 83, 105, 122>>

\* a cipher that adds the key stream instead
xor_add(x, y) == (x + y) % 256

\* ^ on u8
RECURSIVE xor(_, _)
xor(x, y) ==
    IF x = 0 THEN y ELSE IF y = 0 THEN x
    ELSE ((x + y) % 2) + 2 * xor(x \div 2, y \div 2)

wrapping_add(x, y) == (x + y) % 256

Crypted(st, data) == [st |-> st, data |-> data]

\* one round of the key schedule: j moves on and state[i], state[j] swap
Rc4_new_step(rc4key, i, acc) ==
    LET swapped(j2) == [j |-> j2,
                        state |-> [acc.state EXCEPT ![i] = acc.state[j2], ![j2] = acc.state[i]]]
    IN  swapped(wrapping_add(wrapping_add(acc.j, acc.state[i]),
                             rc4key[(i % Len(rc4key)) + 1]))

\* lines 30-33: for i in lo..hi, in order (the range is halved, and acc
\* looked at first, so that the evaluation does not nest 256 deep)
RECURSIVE Rc4_new_loop(_, _, _, _)
Rc4_new_loop(rc4key, lo, hi, acc) ==
    IF acc.j > 255 THEN acc
    ELSE IF lo = hi THEN Rc4_new_step(rc4key, lo, acc)
    ELSE Rc4_new_loop(rc4key, ((lo + hi) \div 2) + 1, hi,
                      Rc4_new_loop(rc4key, lo, (lo + hi) \div 2, acc))

\* lines 23-35; the assert on the key's length aborts
Rc4_new(rc4key) ==
    IF ~(Len(rc4key) >= 1 /\ Len(rc4key) <= 256)
    THEN [st |-> "Panic", i |-> 0, j |-> 0, state |-> <<>>]
    ELSE [st |-> "Ok", i |-> 0, j |-> 0,
          state |-> Rc4_new_loop(rc4key, 0, 255, [j |-> 0, state |-> [x \in 0..255 |-> x]]).state]

\* lines 36-47: Rc4::next for each byte of data in turn
RECURSIVE Rc4_encrypt_loop(_, _, _, _, _)
Rc4_encrypt_loop(i0, j0, state, data, n) ==
    IF n > Len(data) THEN data
    ELSE LET i == wrapping_add(i0, 1)
             stepped(j) ==
                 LET swapped(st2) ==
                         Rc4_encrypt_loop(i, j, st2,
                             [data EXCEPT ![n] = xor(data[n],
                                  st2[wrapping_add(st2[i], st2[j])])],
                             n + 1)
                 IN  swapped([state EXCEPT ![i] = state[j], ![j] = state[i]])
         IN  stepped(wrapping_add(j0, state[i]))

\* lines 43-48
Rc4_encrypt(rc4key, data) ==
    LET run(rc4) == IF rc4.st # "Ok" THEN Crypted("Panic", <<>>)
                    ELSE Crypted("Ok", Rc4_encrypt_loop(0, 0, rc4.state, data, 1))
    IN  run(Rc4_new(rc4key))

\* the digest of the md5 crate, of 16 bytes, stood in for by a mixing
\* function of the bytes and their order
RECURSIVE md5_mix(_, _, _)
md5_mix(data, n, h) ==
    IF n > Len(data) THEN h ELSE md5_mix(data, n + 1, (h * 31 + data[n] + 1) % 16777213)

md5_compute(data) ==
    LET digest(h) == [i \in 1..16 |-> (((h % 65536) + 1) * (2 * i + 1) + (h \div pow(2, i)) + i * i) % 256]
    IN  digest(md5_mix(data, 1, 7))

\* i32::to_le_bytes: \div rounds down, which gives the bytes of the two's
\* complement
to_le_bytes(x) == [i \in 1..4 |-> (x \div pow(256, i - 1)) % 256]

CryptDict(o, u, r, p, bits) == [o |-> o, u |-> u, r |-> r, p |-> p, bits |-> bits]

Decoder(st, key_size, k) == [st |-> st, key_size |-> key_size, key |-> k]

\* lines 116-120: md5 of the first key_size bytes, fifty times over; the
\* slice of the 16-byte digest aborts when key_size is larger
RECURSIVE rehash(_, _, _)
rehash(data, key_size, n) ==
    IF n = 0 THEN Crypted("Ok", data)
    ELSE IF key_size > Len(data) THEN Crypted("Panic", <<>>)
    ELSE rehash(md5_compute(SubSeq(data, 1, key_size)), key_size, n - 1)

\* lines 80-125: the file key of Algorithm 2
file_key(dict, id, pass) ==
    LET level == dict.r
        key_size == dict.bits \div 8
        padded == IF Len(pass) < 32 THEN pass \o SubSeq(PADDING, 1, 32 - Len(pass))
                  ELSE SubSeq(pass, 1, 32)
        made(d) == Decoder(d.st, key_size, d.data)
    IN  made(IF level >= 3
             THEN rehash(md5_compute(padded \o dict.o \o to_le_bytes(dict.p) \o id
                                     \o (IF level >= 4 THEN <<255, 255, 255, 255>> ELSE <<>>)),
                         key_size, 50)
             ELSE Crypted("Ok", md5_compute(padded \o dict.o \o to_le_bytes(dict.p) \o id)))

\* lines 77-79: &self.key[.. self.key_size] aborts past the 16 bytes
Decoder_key(decoder, k) ==
    IF decoder.key_size > Len(k) THEN Crypted("Panic", <<>>)
    ELSE Crypted("Ok", SubSeq(k, 1, decoder.key_size))

\* lines 147-154: the nineteen further passes, the key xored with i
RECURSIVE compute_u_loop(_, _, _)
compute_u_loop(decoder, data, i) ==
    IF i > 19 THEN Crypted("Ok", data)
    ELSE LET passed(d) == IF d.st # "Ok" THEN d ELSE compute_u_loop(decoder, d.data, i + 1)
             sliced(k) == IF k.st # "Ok" THEN k ELSE passed(Rc4_encrypt(k.data, data))
         IN  sliced(Decoder_key(decoder, [b \in 1..Len(decoder.key) |-> xor(decoder.key[b], i)]))

\* lines 132-158
compute_u(decoder, id) ==
    LET first(d) == IF d.st # "Ok" THEN d ELSE compute_u_loop(decoder, d.data, 1)
        sliced(k) == IF k.st # "Ok" THEN k
                     ELSE first(Rc4_encrypt(k.data, md5_compute(PADDING \o id)))
    IN  sliced(Decoder_key(decoder, decoder.key))

\* lines 159-161; the slice of /U aborts when it has fewer than 16 bytes
check_password(decoder, dict, id) ==
    LET compared(cu) == IF cu.st # "Ok" THEN [st |-> "Panic", eq |-> FALSE]
                        ELSE IF Len(dict.u) < 16 THEN [st |-> "Panic", eq |-> FALSE]
                        ELSE [st |-> "Ok", eq |-> cu.data = SubSeq(dict.u, 1, 16)]
    IN  compared(compute_u(decoder, id))

\* lines 80-131
from_password(dict, id, pass) ==
    LET checked(decoder, c) ==
            IF c.st # "Ok" THEN [st |-> "Panic", decoder |-> None, err |-> NoErr]
            ELSE IF c.eq THEN [st |-> "Ok", decoder |-> Some(decoder), err |-> NoErr]
            ELSE [st |-> "Err", decoder |-> None, err |-> <<"InvalidPassword">>]
        keyed(decoder) ==
            IF decoder.st # "Ok" THEN [st |-> "Panic", decoder |-> None, err |-> NoErr]
            ELSE checked(decoder, check_password(decoder, dict, id))
    IN  keyed(file_key(dict, id, pass))

\* the /Length entries of the encryption dictionary: none of a byte, the
\* default, the largest of RC4, and the 256 of the later handlers
Lengths == {0, 40, 128, 256}

Passwords == {<<>>, <<117>>}

FileIds == {<<>>, <<7, 9>>}

\* the /U a writer stores for the password w: Algorithm 5 and sixteen
\* bytes of padding after it, or zeros when the writer has no password
stored_u(dict, id, w, tail) ==
    LET made(cu) == IF cu.st = "Ok" THEN cu.data \o tail ELSE [i \in 1..16 |-> 0] \o tail
        keyed(k) == IF k.st = "Ok" THEN made(compute_u(k, id)) ELSE [i \in 1..16 |-> 0] \o tail
    IN  IF w = None THEN [i \in 1..16 |-> 0] \o tail ELSE keyed(file_key(dict, id, Unwrap(w)))

\* an encryption dictionary of a file, a file id, and the password tried
InitCrypt ==
    /\ FileIdle
    /\ LoadIdle
    /\ \E r \in {2, 3, 4} : \E bits \in Lengths : \E id \in FileIds :
       \E pass \in Passwords : \E w \in {None} \cup {Some(x) : x \in Passwords} :
       \E tail \in {<<>>, [i \in 1..16 |-> 0]} :
         LET blank == CryptDict(<<1, 2>>, <<>>, r, -4, bits)
         IN  input = [dict |-> [blank EXCEPT !.u = stored_u(blank, id, w, tail)],
                      id |-> id, pass |-> pass, writer |-> w]
    /\ output = None

FromPassword ==
    /\ output = None
    /\ output' = Some(from_password(input.dict, input.id, input.pass))
    /\ UNCHANGED <<input, fileVars, loadVars>>

NextCrypt == FromPassword

SpecCrypt == InitCrypt /\ [][NextCrypt]_vars

\* the 16 bytes Algorithm 5 derives from the file key are the first 16
\* bytes of the stored /U
ComputedUIsStored ==
    LET compared(cu) == cu.st = "Ok" /\ cu.data = SubSeq(input.dict.u, 1, 16)
        keyed(k) == k.st = "Ok" /\ compared(compute_u(k, input.id))
    IN  keyed(file_key(input.dict, input.id, input.pass))

\* C20: from_password returns Ok exactly when the 16 bytes compute_u
\* derives from the file key equal the first 16 bytes of the stored /U, and
\* InvalidPassword in every other case, for the revisions 2, 3 and 4 and a
\* stored /U of at least 16 bytes
C20_PasswordAcceptedIffUMatches ==
    IsSome(output) =>
        IF ComputedUIsStored
        THEN Unwrap(output).st = "Ok"
        ELSE Unwrap(output).st = "Err" /\ Unwrap(output).err = <<"InvalidPassword">>

\* the same for a /Length of 8 to 128 bits
PasswordAcceptedIffUMatchesForRc4Lengths ==
    (input.dict.bits >= 8 /\ input.dict.bits <= 128) => C20_PasswordAcceptedIffUMatches

\* the password the writer used is accepted, with or without bytes after
\* the first sixteen of /U
WriterPasswordAccepted ==
    (/\ IsSome(output)
     /\ input.dict.bits >= 8 /\ input.dict.bits <= 128
     /\ input.writer = Some(input.pass)) => Unwrap(output).st = "Ok"

\* another password is not
OtherPasswordRejected ==
    (/\ IsSome(output)
     /\ input.dict.bits >= 8 /\ input.dict.bits <= 128
     /\ input.writer # Some(input.pass)) => Unwrap(output).st = "Err"

(***************************************************************************)
(* Rc4::encrypt applied twice                                              *)
(***************************************************************************)
\* longest key drawn byte by byte (the key of 256 bytes is drawn whole)
MaxKeyLen == 2

\* longest data buffer
MaxData == 2

KeyBytes == {0, 1, 255}

DataBytes == {0, 85, 255}

\* a key of 1 to MaxKeyLen bytes, or the key 0, 1, ..., 255 of 256 bytes,
\* and a data buffer
InitRc4 ==
    /\ FileIdle
    /\ LoadIdle
    /\ \E k \in 1..MaxKeyLen : \E short \in [1..k -> KeyBytes] :
       \E rc4key \in {short, [i \in 1..256 |-> i - 1]} :
       \E n \in 0..MaxData : \E data \in [1..n -> DataBytes] :
         input = [key |-> rc4key, data |-> data]
    /\ output = None

\* Rc4::encrypt(key, &mut data) twice over the same buffer
encrypt_twice(rc4key, data) ==
    LET again(once, twice) == [once |-> once, twice |-> twice]
        first(once) == IF once.st # "Ok" THEN again(once, once)
                       ELSE again(once, Rc4_encrypt(rc4key, once.data))
    IN  first(Rc4_encrypt(rc4key, data))

EncryptTwice ==
    /\ output = None
    /\ output' = Some(encrypt_twice(input.key, input.data))
    /\ UNCHANGED <<input, fileVars, loadVars>>

NextRc4 == EncryptTwice

SpecRc4 == InitRc4 /\ [][NextRc4]_vars

\* C21: Rc4::encrypt is an involution: for a key of 1 to 256 bytes,
\* encrypting a buffer twice with the same key restores its bytes, and
\* neither pass changes its length
C21_Rc4EncryptIsInvolution ==
    IsSome(output) =>
        /\ Unwrap(output).once.st = "Ok"
        /\ Unwrap(output).twice.st = "Ok"
        /\ Len(Unwrap(output).once.data) = Len(input.data)
        /\ Unwrap(output).twice.data = input.data

\* a buffer of MaxData bytes whose every byte the first pass changed and
\* the second restored
C21_Witness ==
    /\ IsSome(output)
    /\ Len(input.data) = MaxData
    /\ \A i \in 1..MaxData : Unwrap(output).once.data[i] # input.data[i]
    /\ Unwrap(output).twice.data = input.data

(***************************************************************************)
(* Xref streams whose /W gives a field the width 0                         *)
(***************************************************************************)
\* an xref stream with at least one width of 0, its payload complete and
\* its entries of the types 0, 1 and 2
InitZeroWidth ==
    /\ FileIdle
    /\ LoadIdle
    /\ \E n \in 0..MaxEntries : \E es \in [1..n -> StreamEntries] :
         \E w \in [1..3 -> {0, 1}], first \in {0, 4}, counts \in CountsOf(n) :
              /\ \E i \in 1..3 : w[i] = 0
              /\ \A k \in 1..n : es[k].type \in 0..2
              /\ input = XRefStream(w, first, counts, es, 0)
    /\ output = None

SpecZeroWidth == InitZeroWidth /\ [][NextStream]_vars

\* what a packed entry stands for when a field of width 0 takes its
\* default: type 1, field1 0, field2 0
DefaultedEntryOf(w, e) ==
    [kind   |-> IF w[1] = 0 THEN "Raw"
                ELSE IF e.type = 0 THEN "Free" ELSE IF e.type = 1 THEN "Raw" ELSE "Stream",
     a      |-> IF w[2] = 0 THEN 0 ELSE e.f[1] % pow(256, w[2]),
     gen_nr |-> IF w[3] = 0 THEN 0 ELSE e.f[2] % pow(256, w[3])]

DefaultedSections(x) ==
    [j \in 1..Len(x.counts) |->
        [first_id |-> x.index[2 * j - 1],
         entries  |-> [k \in 1..x.counts[j] |->
                          DefaultedEntryOf(x.w, x.entries[SumTo(x.counts, j - 1) + k])]]]

\* C22: a field of width 0 takes its default, type 1 (Raw) for W[0] = 0,
\* 0 for field1 with W[1] = 0 and for field2 with W[2] = 0, and uses up no
\* byte of the payload
C22_ZeroWidthFieldsTakeDefaults ==
    IsSome(output) =>
        /\ Unwrap(output).st = "Ok"
        /\ Unwrap(output).sections = DefaultedSections(input)
        /\ Unwrap(output).left = <<>>

\* the same for the streams that give the type field a width
ZeroWidthFieldsWhenTypeIsWritten ==
    input.w[1] # 0 => C22_ZeroWidthFieldsTakeDefaults

\* with W[0] = 0 the entries come out as Free
ZeroWidthTypeIsFree ==
    (IsSome(output) /\ input.w[1] = 0) =>
        /\ Unwrap(output).st = "Ok"
        /\ \A j \in 1..Len(Unwrap(output).sections) :
             \A k \in 1..Len(Unwrap(output).sections[j].entries) :
                Unwrap(output).sections[j].entries[k].kind = "Free"

(***************************************************************************)
(* read_xref_table_and_trailer over files whose /Prev chain may come back  *)
(* to a group it has passed                                                *)
(***************************************************************************)
\* a file whose last group has no /Prev, a /Prev outside the file, or a
\* /Prev naming a group of the chain (itself included)
InitLoadCyclic ==
    /\ FileIdle
    /\ ParseIdle
    /\ \E n \in 1..MaxSections : \E S \in [1..n -> SUBSET (0..MaxObjId)] :
         \E sz \in {None, Some(MaxObjId + 1)}, last \in {None} \cup {Some(k) : k \in 1..(n + 1)} :
              backend = Backend(S, sz, last)
    /\ refs = <<>>
    /\ trailer = None
    /\ prev_trailer = None
    /\ xret = "start"

\* lines 56-58: the loop is entered for Some(prev_xref_offset) and the
\* group there is read
LoadRead ==
    /\ xret = "loop"
    /\ IsSome(prev_trailer)
    /\ xret' = IF read_xref_and_trailer_at(Unwrap(prev_trailer)).st = "Ok" THEN "read" ELSE "Err"
    /\ UNCHANGED <<backend, refs, trailer, prev_trailer, fileVars, parseVars>>

\* lines 60-70: its sections are added and its /Prev is the next offset
LoadAdd ==
    /\ xret = "read"
    /\ LET r == read_xref_and_trailer_at(Unwrap(prev_trailer))
       IN  /\ refs' = add_sections(refs, r.sections)
           /\ prev_trailer' = r.trailer.Prev
    /\ xret' = "loop"
    /\ UNCHANGED <<backend, trailer, fileVars, parseVars>>

NextLoadCyclic == LoadFirst \/ LoadRead \/ LoadAdd \/ LoadReturn

\* the call runs on while it has a step to take
SpecLoadCyclic == InitLoadCyclic /\ [][NextLoadCyclic]_vars /\ WF_vars(NextLoadCyclic)

\* C23: read_xref_table_and_trailer returns a table or an error for every
\* file, also when the /Prev chain names an offset it has loaded
C23_LoadTerminates == <>(xret \in {"Ok", "Err"})

\* the /Prev of the last group names a group of the file
PrevCycle ==
    \E off \in DOMAIN backend :
        /\ IsSome(backend[off].trailer.Prev)
        /\ Unwrap(backend[off].trailer.Prev) <= off

\* the call returns for the files whose /Prev chain names no group twice
LoadTerminatesWithoutCycle == PrevCycle \/ <>(xret \in {"Ok", "Err"})

(***************************************************************************)
(* inherit, turn by turn, over Parent references that may form a cycle     *)
(***************************************************************************)
\* d Pages objects and one page below the last of them; above is the
\* Parent of each Pages object (0 for none), A the objects that carry the
\* MediaBox, CropBox and Resources entries
CyclicDoc(d, above, A) ==
    [n      |-> d + 1,
     kind   |-> [i \in 1..(d + 1) |-> IF i = d + 1 THEN "Page" ELSE "Pages"],
     parent |-> [i \in 1..(d + 1) |-> IF i = d + 1 THEN Some(Ref(d))
                                      ELSE IF above[i] = 0 THEN None
                                      ELSE Some(Ref(above[i]))],
     kids   |-> [i \in 1..(d + 1) |-> <<>>],
     count  |-> [i \in 1..(d + 1) |-> 0],
     media_box |-> [i \in 1..(d + 1) |-> IF i \in A THEN Some(i) ELSE None],
     crop_box  |-> [i \in 1..(d + 1) |-> IF i \in A THEN Some(i) ELSE None],
     resources |-> [i \in 1..(d + 1) |-> IF i \in A THEN Some(Ref(ResBase + i)) ELSE None]]

Call(op, page, field, pc, parent, st, e) ==
    [op |-> op, page |-> page, field |-> field, pc |-> pc, parent |-> parent,
     st |-> st, err |-> e]

\* a file is open and a caller holds its page
InitCyclic ==
    /\ LoadIdle
    /\ ParseIdle
    /\ \E d \in 1..MaxDepth : \E above \in [1..d -> 0..d] : \E A \in SUBSET (1..(d + 1)) :
         doc = CyclicDoc(d, above, A)
    /\ cache = [r \in PlainRef |-> None]
    /\ rcs = [r \in PlainRef |-> 0]
    /\ ret = Call("open", 0, "", "idle", Ref(1), "Ok", NoErr)

\* the field has no value on the page: inherit(self.parent, ...) is entered
EnterInherit(op, page, field) ==
    /\ ret' = Call(op, page, field, "deref", Unwrap(doc.parent[page]), "Ok", NoErr)
    /\ UNCHANGED <<cache, rcs>>

\* a result handed back to the caller
Return(op, page, field, res) ==
    /\ ret' = Call(op, page, field, "done", ret.parent, res.st, res.err)
    /\ cache' = res.fs.cache
    /\ rcs' = res.fs.rcs

\* Page::media_box, Page::crop_box or Page::resources is called: the
\* page's own value is returned, or inherit is entered
CallAttribute ==
    /\ ret.pc = "idle"
    /\ \E op \in {"media_box", "crop_box", "resources"} :
         LET page == doc.n
         IN  IF op = "media_box"
             THEN IF IsSome(doc.media_box[page])
                  THEN Return(op, page, "MediaBox", Ok(Unwrap(doc.media_box[page]), Fs0))
                  ELSE EnterInherit(op, page, "MediaBox")
             ELSE IF op = "crop_box"
             THEN IF IsSome(doc.crop_box[page])
                  THEN Return(op, page, "CropBox", Ok(Unwrap(doc.crop_box[page]), Fs0))
                  ELSE EnterInherit(op, page, "CropBox")
             ELSE IF IsSome(doc.resources[page])
                  THEN Return(op, page, "Resources",
                              deref(Fs0, Unwrap(doc.resources[page]), "Resources"))
                  ELSE EnterInherit(op, page, "Resources")
    /\ UNCHANGED <<doc, loadVars, parseVars>>

\* types.rs line 132: let page_tree = file.deref(parent)?
InheritDeref ==
    /\ ret.pc = "deref"
    /\ LET page_tree == deref(Fs0, ret.parent, "PageTree")
       IN  IF page_tree.st # "Ok"
           THEN Return(ret.op, ret.page, ret.field, page_tree)
           ELSE /\ ret' = [ret EXCEPT !.pc = "match"]
                /\ cache' = page_tree.fs.cache
                /\ rcs' = page_tree.fs.rcs
    /\ UNCHANGED <<doc, loadVars, parseVars>>

\* types.rs lines 134-138: the match on (page_tree.parent, f(page_tree)),
\* and what the caller makes of a break
InheritMatch ==
    /\ ret.pc = "match"
    /\ LET t == ret.parent.id
           v == inherit_f(Fs0, ret.field, t)
       IN  IF IsSome(v)
           THEN Return(ret.op, ret.page, ret.field, Unwrap(v))
           ELSE IF IsSome(doc.parent[t])
           THEN /\ ret' = [ret EXCEPT !.pc = "deref", !.parent = Unwrap(doc.parent[t])]
                /\ UNCHANGED <<cache, rcs>>
           ELSE IF ret.field = "CropBox"
           THEN IF IsSome(doc.media_box[ret.page])
                THEN Return(ret.op, ret.page, "MediaBox",
                            Ok(Unwrap(doc.media_box[ret.page]), Fs0))
                ELSE EnterInherit(ret.op, ret.page, "MediaBox")
           ELSE Return(ret.op, ret.page, ret.field,
                       Err(<<"MissingEntry", "Page", ret.field>>, Fs0))
    /\ UNCHANGED <<doc, loadVars, parseVars>>

NextCyclic == CallAttribute \/ InheritDeref \/ InheritMatch

\* a call runs on while it has a step to take
SpecCyclic == InitCyclic /\ [][NextCyclic]_vars /\ WF_vars(NextCyclic)

\* C24: media_box, crop_box and resources return a value or an error for
\* every page and every set of PageTree nodes, also when the Parent
\* references form a cycle none of whose nodes carries the entry
C24_InheritTerminates == <>(ret.pc = "done")

\* some Pages object has a Parent that is not above it
ParentCycle ==
    \E i \in 1..(doc.n - 1) : IsSome(doc.parent[i]) /\ Unwrap(doc.parent[i]).id >= i

\* the calls return when the Parent references lead up to a root
InheritTerminatesWithoutCycle == ParentCycle \/ <>(ret.pc = "done")

(***************************************************************************)
(* Page::crop_box                                                          *)
(***************************************************************************)
\* the CropBox written on object i
CropOf(i) == 10 + i

\* the chains of AttrDocs that carry MediaBox on the nodes of M, with
\* CropBox on the nodes of C
CropDocs ==
    UNION { { [crop_box |-> [i \in 1..(d + 1) |-> IF i \in C THEN Some(CropOf(i)) ELSE None]]
                @@ ChainDoc(d, M, {}) :
              M \in SUBSET (1..(d + 1)), C \in SUBSET (1..(d + 1)) }
          : d \in 1..MaxDepth }

\* Page::crop_box of the page stored as object p
crop_box(fs, p) ==
    IF IsSome(doc.crop_box[p]) THEN Ok(Unwrap(doc.crop_box[p]), fs)
    ELSE LET i == inherit(fs, Unwrap(doc.parent[p]), "CropBox")
         IN  IF i.st # "Ok" THEN i
             ELSE IF IsSome(i.val) THEN Ok(Unwrap(i.val), i.fs)
             ELSE media_box(i.fs, p)

InitCrop == FileInit(CropDocs) /\ LoadIdle /\ ParseIdle

CropBox ==
    /\ Running
    /\ \E p \in HeldPages :
         Finish("crop_box", [NoArgs EXCEPT !.page = p], crop_box(Fs0, p), <<>>)

NextCrop == Deref \/ GetPage \/ CropBox

SpecCrop == InitCrop /\ [][NextCrop]_vars

\* the nearest of node i and its ancestors that carries a CropBox
RECURSIVE NearestCrop(_)
NearestCrop(i) ==
    IF IsSome(doc.crop_box[i]) THEN Some(i)
    ELSE IF IsSome(doc.parent[i]) THEN NearestCrop(Unwrap(doc.parent[i]).id)
    ELSE None

\* C29: crop_box returns the page's own CropBox if present, otherwise that
\* of the nearest ancestor that has one, otherwise exactly what media_box
\* returns: the nearest MediaBox, or MissingEntry for MediaBox
C29_CropBoxFallsBackToMediaBox ==
    (ret.op = "crop_box") =>
        LET c == NearestCrop(ret.args.page)
            m == NearestCarrier(ret.args.page, "MediaBox")
        IN  IF IsSome(c)
            THEN ret.st = "Ok" /\ ret.val = Unwrap(doc.crop_box[Unwrap(c)])
            ELSE IF IsSome(m)
            THEN ret.st = "Ok" /\ ret.val = Unwrap(doc.media_box[Unwrap(m)])
            ELSE ret.st = "Err" /\ ret.err = <<"MissingEntry", "Page", "MediaBox">>

\* the same, for the calls that do not meet a Parent cached at another type
CropBoxFallsBackWhenNoPanic ==
    (ret.op = "crop_box" /\ ret.st # "Panic") => C29_CropBoxFallsBackToMediaBox

(***************************************************************************)
(* Lexer::read_n                                                           *)
(***************************************************************************)
\* usize is modelled 16 bits wide: what matters is that 0 - 1 wraps to it
\* in a build without overflow checks
usize_MAX == pow(2, 16) - 1

\* Lexer::read_n(n) with the cursor at pos; checked tells whether the
\* build checks arithmetic overflow (`self.buf.len() - 1` on an empty
\* buffer panics in such a build and wraps in the others)
read_n(buf, pos, n, checked) ==
    LET start_pos == pos
        read(p) == IF start_pos < Len(buf)
                   THEN Lexed(new_substr(buf, start_pos, p).st,
                              new_substr(buf, start_pos, p).word, p,
                              new_substr(buf, start_pos, p).err)
                   ELSE Lexed("Ok", new_substr(buf, 0, 0).word, p, NoErr)
    IN  IF pos + n >= Len(buf)
        THEN IF Len(buf) = 0
             THEN IF checked
                  THEN Lexed("Panic", <<>>, pos + n, <<"attempt to subtract with overflow">>)
                  ELSE read(usize_MAX)
             ELSE read(Len(buf) - 1)
        ELSE read(pos + n)

\* a lexer over a buffer of up to MaxLen bytes, its cursor anywhere in it
\* or at its end, and the n of the call
InitReadN ==
    /\ FileIdle
    /\ LoadIdle
    /\ \E len \in 0..MaxLen : \E buf \in [1..len -> {"a", "b"}] :
       \E pos \in 0..len : \E n \in 0..(MaxLen + 1) :
         input = [buf |-> buf, pos |-> pos, n |-> n]
    /\ output = None

ReadN ==
    /\ output = None
    /\ \E checked \in BOOLEAN :
         output' = Some(read_n(input.buf, input.pos, input.n, checked))
    /\ UNCHANGED <<input, fileVars, loadVars>>

NextReadN == ReadN

SpecReadN == InitReadN /\ [][NextReadN]_vars

\* the number of bytes read_n(n) owes: min(n, length - pos)
Owed == IF input.n < Len(input.buf) - input.pos THEN input.n
        ELSE Len(input.buf) - input.pos

\* C30: read_n(n) with the cursor at p returns exactly the min(n, length - p)
\* bytes that start at p and moves the cursor forward by that many, never
\* backward; the last byte of the buffer is returned when n reaches it
C30_ReadNReturnsMinBytes ==
    IsSome(output) =>
        /\ Unwrap(output).st = "Ok"
        /\ Unwrap(output).word = SubSeq(input.buf, input.pos + 1, input.pos + Owed)
        /\ Unwrap(output).pos = input.pos + Owed
        /\ Unwrap(output).pos >= input.pos

\* the same, for the reads that end before the last byte of the buffer
ReadNReturnsBytesBeforeLast ==
    (input.pos + input.n < Len(input.buf)) => C30_ReadNReturnsMinBytes

\* a read that reaches the end never returns the last byte
ReadNDropsLastByte ==
    (IsSome(output) /\ input.pos + input.n >= Len(input.buf) /\ Unwrap(output).st = "Ok") =>
        /\ Len(Unwrap(output).word) < Owed \/ Owed = 0
        /\ Unwrap(output).pos # Len(input.buf)

====
